---- MODULE Spec2Model ----
(***************************************************************************)
(* Model of truenas_smart_parser: the Health Evaluator                     *)
(* (analyze_ata_health / analyze_nvme_health) and the severity            *)
(* classification of the Fleet Aggregator (analyze_smart_directory).       *)
(*                                                                         *)
(* Python values.  An Optional value is a set: None is {} and the value v  *)
(* is {v}, so that "is None" and truthiness are decided as Python decides  *)
(* them and never by comparing values of different kinds.                  *)
(***************************************************************************)
EXTENDS Integers, Sequences, FiniteSets, TLC

VARIABLES
    pc,          \* position of the run: "start", "done"
    drives,      \* analyze_smart_directory: the list of DriveHealth
    system,      \* analyze_smart_directory: the SystemHealth returned
    outcome,     \* "none" | "returned" | "raised" (an exception escaped)
    drive_type,  \* Health Evaluator: family of the series, "ata" | "nvme"
    df,          \* Health Evaluator: the DataFrame, rows sorted by timestamp
    health,      \* Health Evaluator: the DriveHealth returned
    args,        \* the arguments of the call under analysis
    env,         \* what the call meets: command executor, file system, logger
    result,      \* what a decoder or a threshold query returned
    locals       \* analyze_smart_directory: device_mapping and the loop position

vars == <<pc, drives, system, outcome, drive_type, df, health, args, env, result, locals>>

----------------------------------------------------------------------------
(* Python values *)

None == {}

Some(v) == {v}

Val(x) == CHOOSE v \in x : TRUE

\* bool(x) of an Optional number: None and 0 are falsy
Truthy(x) == x # None /\ Val(x) # 0

Max2(a, b) == IF a >= b THEN a ELSE b

----------------------------------------------------------------------------
(* Bounds and sample values of the classification model *)

\* at most this many of the ten error counters of a drawn DriveHealth are nonzero
MaxNonzero == 1

\* current temperatures drawn (Celsius)
TempSamples == {None, Some(0), Some(59), Some(60), Some(69), Some(70)}

\* thresholds drawn: unset, zero, the ATA defaults (operational 60, critical 70)
WarningSamples == {None, Some(0), Some(60)}

CriticalSamples == {None, Some(0), Some(70)}

OperationalSamples == {None, Some(0), Some(60)}

\* spare-capacity percentages drawn: unset, exhausted, low, at the limit
SpareSamples == {None, Some(0), Some(9), Some(10)}

\* the fields no classification reads: percentage used and power-on hours
OtherSamples == {<<None, 0>>, <<Some(100), 50000>>}

DriveTypes == {"ata", "nvme"}

TotalFields == {"reallocated_sectors_total", "pending_sectors_total",
                "uncorrectable_sectors_total", "read_errors_total",
                "media_errors_total"}

WindowFields == {"reallocated_sectors_24h", "pending_sectors_24h",
                 "uncorrectable_sectors_24h", "read_errors_24h",
                 "media_errors_24h"}

ErrorProfiles == {S \in SUBSET (TotalFields \cup WindowFields) :
                    Cardinality(S) <= MaxNonzero}

Count(S, f) == IF f \in S THEN 1 ELSE 0

\* dataclass DriveHealth (identity fields are not read by the classification)
DriveHealth(type, temp, warn, crit, op, S, spare, other) ==
    [drive_type |-> type,
     temperature_current |-> temp,
     temperature_max_24h |-> temp,
     temperature_mean_24h |-> IF temp = None THEN None ELSE Some(<<Val(temp), 1>>),
     temperature_warning |-> warn,
     temperature_critical |-> crit,
     temperature_operational_max |-> op,
     reallocated_sectors_total |-> Some(Count(S, "reallocated_sectors_total")),
     pending_sectors_total |-> Some(Count(S, "pending_sectors_total")),
     uncorrectable_sectors_total |-> Some(Count(S, "uncorrectable_sectors_total")),
     read_errors_total |-> Some(Count(S, "read_errors_total")),
     media_errors_total |-> Some(Count(S, "media_errors_total")),
     reallocated_sectors_24h |-> Count(S, "reallocated_sectors_24h"),
     pending_sectors_24h |-> Count(S, "pending_sectors_24h"),
     uncorrectable_sectors_24h |-> Count(S, "uncorrectable_sectors_24h"),
     read_errors_24h |-> Count(S, "read_errors_24h"),
     media_errors_24h |-> Count(S, "media_errors_24h"),
     available_spare_pct |-> spare,
     percentage_used |-> other[1],
     power_on_hours |-> Some(other[2]),
     last_updated |-> None]

DriveHealths ==
    {DriveHealth(type, temp, warn, crit, op, S, spare, other) :
        type \in DriveTypes, temp \in TempSamples, warn \in WarningSamples,
        crit \in CriticalSamples, op \in OperationalSamples,
        S \in ErrorProfiles, spare \in SpareSamples, other \in OtherSamples}

----------------------------------------------------------------------------
(* analyze_smart_directory: the classification loop *)

\* spare percentage below which an NVMe drive is a Warning
SPARE_LIMIT == 10

\* "drive.temperature_critical and drive.temperature_current >= ..."
TempIsCritical(d) ==
    /\ d.temperature_current # None
    /\ Truthy(d.temperature_critical)
    /\ Val(d.temperature_current) >= Val(d.temperature_critical)

\* the two elif branches: reached only when the critical branch was not taken
TempIsWarning(d) ==
    /\ d.temperature_current # None
    /\ ~TempIsCritical(d)
    /\ \/ /\ Truthy(d.temperature_warning)
          /\ Val(d.temperature_current) >= Val(d.temperature_warning)
       \/ /\ Truthy(d.temperature_operational_max)
          /\ Val(d.temperature_current) >= Val(d.temperature_operational_max)

NewErrorsNoMedia(d) ==
    \/ d.reallocated_sectors_24h > 0
    \/ d.pending_sectors_24h > 0

\* "Critical: any new errors in 24h": the three counters the condition reads
NewErrors(d) ==
    \/ d.reallocated_sectors_24h > 0
    \/ d.pending_sectors_24h > 0
    \/ d.media_errors_24h > 0

SpareLowAnyType(d) ==
    /\ Truthy(d.available_spare_pct)
    /\ Val(d.available_spare_pct) < SPARE_LIMIT

\* "drive.drive_type == 'nvme' and drive.available_spare_pct and ... < 10"
SpareLow(d) ==
    /\ d.drive_type = "nvme"
    /\ Truthy(d.available_spare_pct)
    /\ Val(d.available_spare_pct) < SPARE_LIMIT

\* the elif condition, evaluated left to right with short circuit: comparing a
\* counter that is None with 0 raises TypeError
WarningCondition(d) ==
    IF d.reallocated_sectors_total = None THEN "TypeError"
    ELSE IF Val(d.reallocated_sectors_total) > 0 THEN "true"
    ELSE IF d.pending_sectors_total = None THEN "TypeError"
    ELSE IF Val(d.pending_sectors_total) > 0 THEN "true"
    ELSE IF d.media_errors_total = None THEN "TypeError"
    ELSE IF Val(d.media_errors_total) > 0 THEN "true"
    ELSE IF TempIsWarning(d) \/ SpareLow(d) THEN "true"
    ELSE "false"

\* one iteration of "for drive in drives": the counter it increments
Tier(d) ==
    IF NewErrors(d) \/ TempIsCritical(d) THEN "critical"
    ELSE IF WarningCondition(d) = "TypeError" THEN "TypeError"
    ELSE IF WarningCondition(d) = "true" THEN "warning"
    ELSE "healthy"

RECURSIVE CountTier(_, _)
CountTier(ds, t) ==
    IF ds = <<>> THEN 0
    ELSE (IF Tier(Head(ds)) = t THEN 1 ELSE 0) + CountTier(Tail(ds), t)

\* the loop raises at the first drive whose comparison raises
Raises(ds) == \E i \in 1..Len(ds) : Tier(ds[i]) = "TypeError"

\* the generator summed for total_errors_24h: four of the five 24h counters
NewErrorCount(d) ==
    d.reallocated_sectors_24h + d.pending_sectors_24h
        + d.uncorrectable_sectors_24h + d.media_errors_24h

RECURSIVE TotalErrors24h(_)
TotalErrors24h(ds) ==
    IF ds = <<>> THEN 0
    ELSE NewErrorCount(Head(ds)) + TotalErrors24h(Tail(ds))

NoSystem == [total_drives |-> 0, healthy_drives |-> 0,
             warning_drives |-> 0, critical_drives |-> 0,
             total_errors_24h |-> 0]

\* max(temps) if temps else 0.0, temps the current temperatures that are not None
MaxTemperature(ds) ==
    LET temps == {Val(ds[i].temperature_current) :
                    i \in {j \in 1..Len(ds) : ds[j].temperature_current # None}}
    IN  IF temps = {} THEN 0 ELSE CHOOSE m \in temps : \A t \in temps : t <= m

\* sum(d.<field> for d in drives)
RECURSIVE SumField(_, _)
SumField(ds, field) ==
    IF ds = <<>> THEN 0 ELSE Val(Head(ds)[field]) + SumField(Tail(ds), field)

\* the fields the aggregates add up or compare with 0
SummedFields == {"reallocated_sectors_total", "pending_sectors_total",
                 "media_errors_total", "power_on_hours"}

\* a None among them makes sum() or `> 0` raise TypeError
SumRaises(ds) == \E i \in 1..Len(ds), f \in SummedFields : ds[i][f] = None

\* power_hours = [d.power_on_hours for d in drives if d.power_on_hours > 0]
PowerHours(ds) ==
    {Val(ds[i].power_on_hours) : i \in {j \in 1..Len(ds) : Val(ds[j].power_on_hours) > 0}}

OldestHours(ds) ==
    IF PowerHours(ds) = {} THEN 0
    ELSE CHOOSE m \in PowerHours(ds) : \A h \in PowerHours(ds) : h <= m

NewestHoursAmongAll(ds) ==
    LET hours == {Val(ds[i].power_on_hours) : i \in 1..Len(ds)}
    IN  IF hours = {} THEN 0 ELSE CHOOSE m \in hours : \A h \in hours : m <= h

\* min(power_hours) if power_hours else 0
NewestHours(ds) ==
    IF PowerHours(ds) = {} THEN 0
    ELSE CHOOSE m \in PowerHours(ds) : \A h \in PowerHours(ds) : m <= h

FamilyCount(ds, type) == Cardinality({i \in 1..Len(ds) : ds[i].drive_type = type})

\* datetime.now() at the end of a call: later than every sampled timestamp
CallTime == 86400 + 2

\* the SystemHealth built at the end of analyze_smart_directory
SystemHealth(ds) ==
    [drives |-> ds,
     total_drives |-> Len(ds),
     healthy_drives |-> CountTier(ds, "healthy"),
     warning_drives |-> CountTier(ds, "warning"),
     critical_drives |-> CountTier(ds, "critical"),
     total_errors_24h |-> TotalErrors24h(ds),
     max_temperature |-> MaxTemperature(ds),
     total_reallocated_sectors |-> SumField(ds, "reallocated_sectors_total"),
     total_pending_sectors |-> SumField(ds, "pending_sectors_total"),
     total_media_errors |-> SumField(ds, "media_errors_total"),
     oldest_drive_hours |-> OldestHours(ds),
     newest_drive_hours |-> NewestHours(ds),
     nvme_drives |-> FamilyCount(ds, "nvme"),
     ata_drives |-> FamilyCount(ds, "ata"),
     last_updated |-> Some(CallTime)]

NoHealth == [drive_type |-> "none"]

InitFleet ==
    /\ pc = "start"
    /\ drives \in {<<d>> : d \in DriveHealths}
    /\ system = NoSystem
    /\ outcome = "none"
    /\ drive_type = "none"
    /\ df = <<>>
    /\ health = NoHealth
    /\ args = <<>>
    /\ env = <<>>
    /\ result = <<>>
    /\ locals = <<>>

analyze_smart_directory ==
    /\ pc = "start"
    /\ pc' = "done"
    /\ IF SumRaises(drives) \/ Raises(drives)
       THEN outcome' = "raised" /\ system' = NoSystem
       ELSE outcome' = "returned" /\ system' = SystemHealth(drives)
    /\ UNCHANGED <<drives, drive_type, df, health, args, env, result, locals>>

get_health_status_no_spare(d) ==
    IF TempIsCritical(d) \/ NewErrors(d) THEN "red"
    ELSE IF TempIsWarning(d) THEN "yellow"
    ELSE IF d.reallocated_sectors_total = None THEN "TypeError"
    ELSE IF Val(d.reallocated_sectors_total) > 0 THEN "yellow"
    ELSE IF d.pending_sectors_total = None THEN "TypeError"
    ELSE IF Val(d.pending_sectors_total) > 0 THEN "yellow"
    ELSE IF d.media_errors_total = None THEN "TypeError"
    ELSE IF Val(d.media_errors_total) > 0 THEN "yellow"
    ELSE "green"

\* display.get_health_status(drive): the colour; the elif reads the
\* temperature flag before the totals
get_health_status(d) ==
    IF TempIsCritical(d) \/ NewErrors(d) THEN "red"
    ELSE IF TempIsWarning(d) THEN "yellow"
    ELSE IF d.reallocated_sectors_total = None THEN "TypeError"
    ELSE IF Val(d.reallocated_sectors_total) > 0 THEN "yellow"
    ELSE IF d.pending_sectors_total = None THEN "TypeError"
    ELSE IF Val(d.pending_sectors_total) > 0 THEN "yellow"
    ELSE IF d.media_errors_total = None THEN "TypeError"
    ELSE IF Val(d.media_errors_total) > 0 THEN "yellow"
    ELSE IF SpareLow(d) THEN "yellow"
    ELSE "green"

\* the tables of the display: one status per drive of the SystemHealth
RenderStatus ==
    /\ pc = "done"
    /\ outcome = "returned"
    /\ result = <<>>
    /\ result' = [i \in 1..Len(drives) |-> get_health_status(drives[i])]
    /\ UNCHANGED <<pc, drives, system, outcome, drive_type, df, health, args, env, locals>>

NextFleet == analyze_smart_directory \/ RenderStatus

Spec == InitFleet /\ [][NextFleet]_vars

----------------------------------------------------------------------------
(* Claims about the classification, on a fleet of one device *)

TheDrive == drives[1]

Classified == pc = "done" /\ outcome = "returned"

CountedCritical ==
    /\ Classified
    /\ system.critical_drives = 1
    /\ system.warning_drives = 0
    /\ system.healthy_drives = 0

CountedWarning ==
    /\ Classified
    /\ system.warning_drives = 1
    /\ system.critical_drives = 0
    /\ system.healthy_drives = 0

CountedHealthy ==
    /\ Classified
    /\ system.healthy_drives = 1
    /\ system.warning_drives = 0
    /\ system.critical_drives = 0

AnyWindowCounterNonzero(d) == \E f \in WindowFields : d[f] # 0

AllCountersZero(d) ==
    /\ \A f \in WindowFields : d[f] = 0
    /\ \A f \in TotalFields : d[f] = Some(0)

\* the temperature is unset or strictly below the threshold t when t is set
Below(d, t) ==
    \/ d.temperature_current = None
    \/ t = None
    \/ Val(d.temperature_current) < Val(t)

BelowEveryThreshold(d) ==
    /\ Below(d, d.temperature_warning)
    /\ Below(d, d.temperature_critical)
    /\ Below(d, d.temperature_operational_max)

\* the temperature is set and at or above the threshold t, which is set
AtOrAbove(d, t) ==
    /\ d.temperature_current # None
    /\ t # None
    /\ Val(d.temperature_current) >= Val(t)

\* C1 as stated: a device with any of the five 24h counters nonzero is counted
\* Critical, whatever its temperature and thresholds are.
C1_AnyWindowCounterCritical ==
    pc = "done" => (AnyWindowCounterNonzero(TheDrive) => CountedCritical)

\* C1 (amended): a device whose reallocated_sectors_24h, pending_sectors_24h or
\* media_errors_24h is nonzero is counted Critical, whatever its temperature
\* and thresholds are (temperature unset included).
C1_NewErrorsCritical ==
    pc = "done" =>
        ((\/ TheDrive.reallocated_sectors_24h # 0
          \/ TheDrive.pending_sectors_24h # 0
          \/ TheDrive.media_errors_24h # 0) => CountedCritical)

C1_Witness ==
    /\ CountedCritical
    /\ TheDrive.media_errors_24h > 0
    /\ TheDrive.temperature_current = None
    /\ TheDrive.temperature_critical = None

\* C2 as stated: all ten counters zero and the temperature strictly below every
\* set threshold is counted Healthy for either family, whatever the spare
\* percentage is.
C2_QuietDriveHealthy ==
    pc = "done" =>
        (AllCountersZero(TheDrive) /\ BelowEveryThreshold(TheDrive)
            => CountedHealthy)

\* C2 (amended): all ten counters zero and the temperature strictly below every
\* set threshold is counted Healthy, unless the device is NVMe with a spare
\* percentage that is set and below 10.
C2_QuietDriveHealthyUnlessSpareLow ==
    pc = "done" =>
        (/\ AllCountersZero(TheDrive)
         /\ BelowEveryThreshold(TheDrive)
         /\ ~(/\ TheDrive.drive_type = "nvme"
              /\ TheDrive.available_spare_pct # None
              /\ Val(TheDrive.available_spare_pct) < 10)
         => CountedHealthy)

C2_Witness ==
    /\ CountedHealthy
    /\ AllCountersZero(TheDrive)
    /\ TheDrive.drive_type = "ata"
    /\ TheDrive.available_spare_pct = Some(9)
    /\ TheDrive.temperature_current = Some(59)
    /\ TheDrive.temperature_operational_max = Some(60)
    /\ TheDrive.temperature_critical = Some(70)
    /\ TheDrive.percentage_used = Some(100)

ClaimedCritical(d) ==
    \/ d.reallocated_sectors_24h > 0
    \/ d.pending_sectors_24h > 0
    \/ d.media_errors_24h > 0
    \/ AtOrAbove(d, d.temperature_critical)

\* C3: a device is counted Critical exactly when one of reallocated, pending,
\* media 24h counters is > 0 or its critical threshold is set and the
\* temperature is set and >= it; a Critical device is not counted Warning.
C3_CriticalExactly ==
    pc = "done" => (CountedCritical <=> ClaimedCritical(TheDrive))

ClaimedWarning(d) ==
    \/ Val(d.reallocated_sectors_total) > 0
    \/ Val(d.pending_sectors_total) > 0
    \/ Val(d.media_errors_total) > 0
    \/ AtOrAbove(d, d.temperature_warning)
    \/ AtOrAbove(d, d.temperature_operational_max)

\* C4: a device that is not counted Critical is counted Warning exactly when a
\* cumulative counter (reallocated, pending, media) is > 0 or its temperature
\* is >= the warning threshold or >= the operational_max threshold, each when
\* set.
C4_WarningExactly ==
    pc = "done" /\ ~CountedCritical =>
        (CountedWarning <=> ClaimedWarning(TheDrive))

\* C5: a non-Critical NVMe device whose spare percentage is set to v with
\* 0 <= v < 10 (v = 0 included) is counted Warning; the spare percentage never
\* makes an ATA device Warning.
C5_SpareLowWarning ==
    pc = "done" /\ ~CountedCritical =>
        /\ (/\ TheDrive.drive_type = "nvme"
            /\ TheDrive.available_spare_pct # None
            /\ Val(TheDrive.available_spare_pct) >= 0
            /\ Val(TheDrive.available_spare_pct) < 10) => CountedWarning
        /\ (TheDrive.drive_type = "ata" /\ ~ClaimedWarning(TheDrive))
              => ~CountedWarning

----------------------------------------------------------------------------
(* Health Evaluator: analyze_ata_health and analyze_nvme_health            *)
(*                                                                         *)
(* A row of the DataFrame is the dict the parser built for one line: its   *)
(* timestamp (seconds) and the attributes the line carried.  The frame has *)
(* a column for every key that some row carries; a row that lacks the key  *)
(* holds None in that column.                                              *)

\* timedelta(hours=24), in seconds
HOURS_24 == 86400

\* rows of a drawn series
MaxRecords == 3

\* timestamps drawn: two adjacent seconds and the second exactly 24h after the later
TimeSamples == {0, 1, HOURS_24 + 1}

\* raw values of attribute 194 drawn (0x100, 0x21F) and NVMe temperatures drawn
TempReadings(type) == IF type = "ata" THEN {256, 543} ELSE {49, 57}

CounterSamples == {0, 1}

TempColumn(type) == IF type = "ata" THEN "attr_194_raw" ELSE "temperature"

AtaCounterColumns == {"attr_5_raw", "attr_197_raw", "attr_198_raw", "attr_1_raw"}

CounterColumns(type) ==
    IF type = "ata" THEN AtaCounterColumns
    ELSE {"media_and_data_integrity_errors"}

\* the dicts of the lines of a file that logs the temperature and the counter c;
\* a line without any attribute yields no row
RowAttrs(type, c) ==
    {[k \in {TempColumn(type)} |-> t] : t \in TempReadings(type)}
    \cup {[k \in {c} |-> v] : v \in CounterSamples}
    \cup {[k \in {TempColumn(type), c} |->
              IF k = c THEN v ELSE t] :
            t \in TempReadings(type), v \in CounterSamples}

SortedTimes(n) ==
    {ts \in [1..n -> TimeSamples] : \A i \in 1..n, j \in 1..n : i < j => ts[i] <= ts[j]}

Columns(frame) == UNION {DOMAIN frame[i].attrs : i \in 1..Len(frame)}

\* frame.row(i, named=True).get(col, default) for the row `row` of `frame`
Get(frame, row, col, default) ==
    IF col \notin Columns(frame) THEN default
    ELSE IF col \in DOMAIN row.attrs THEN Some(row.attrs[col])
    ELSE None

\* "key in frame.row(i, named=True)"
HasKey(frame, col) == col \in Columns(frame)

Latest(frame) == frame[Len(frame)]

\* df['timestamp'].max()
MaxTimestamp(frame) ==
    CHOOSE t \in {frame[i].timestamp : i \in 1..Len(frame)} :
        \A i \in 1..Len(frame) : frame[i].timestamp <= t

InWindowStrict(frame, row) == row.timestamp > MaxTimestamp(frame) - HOURS_24

\* pl.col('timestamp') >= cutoff_24h
InWindow(frame, row) == row.timestamp >= MaxTimestamp(frame) - HOURS_24

\* df.filter(...): the rows of the window, in the order of the frame
Window(frame) ==
    LET Keep(row) == InWindow(frame, row) IN SelectSeq(frame, Keep)

LowerByteIdentity(raw) == raw

\* t & 0xFF
LowerByte(raw) == raw % 256

Decode(type, raw) == IF type = "ata" THEN LowerByte(raw) ELSE raw

\* temperature_current
TempCurrent(type, frame) ==
    LET t == Get(frame, Latest(frame), TempColumn(type), None)
    IN  IF t = None THEN None ELSE Some(Decode(type, Val(t)))

TempRowsAll(type, frame) ==
    {i \in 1..Len(frame) : TempColumn(type) \in DOMAIN frame[i].attrs}

\* the rows of the window that hold a temperature (indices into the frame)
TempRows(type, frame) ==
    {i \in 1..Len(frame) :
        /\ InWindow(frame, frame[i])
        /\ TempColumn(type) \in DOMAIN frame[i].attrs}

RECURSIVE SumOver(_, _, _)
SumOver(type, frame, I) ==
    IF I = {} THEN 0
    ELSE LET i == CHOOSE x \in I : TRUE
         IN  Decode(type, frame[i].attrs[TempColumn(type)])
               + SumOver(type, frame, I \ {i})

\* temperature_max_24h
TempMax24h(type, frame) ==
    LET I == TempRows(type, frame)
        D == {Decode(type, frame[i].attrs[TempColumn(type)]) : i \in I}
    IN  IF I = {} THEN None
        ELSE Some(CHOOSE m \in D : \A x \in D : x <= m)

\* temperature_mean_24h, as the pair <<sum, count>> of the quotient sum / count
TempMean24h(type, frame) ==
    LET I == TempRows(type, frame)
    IN  IF I = {} THEN None
        ELSE Some(<<SumOver(type, frame, I), Cardinality(I)>>)

\* latest.get(col, 0)
Total(frame, col) == Get(frame, Latest(frame), col, Some(0))

\* first_24h.get(col, 0)
First24h(frame, col) == Get(frame, Window(frame)[1], col, Some(0))

\* the guard of the delta: the window has more than one row and the row dict
\* has the key
DeltaComputed(frame, col) == Len(Window(frame)) > 1 /\ HasKey(frame, col)

\* None - int and int - None raise TypeError
DeltaRaises(frame, col) ==
    /\ DeltaComputed(frame, col)
    /\ (Total(frame, col) = None \/ First24h(frame, col) = None)

DeltaUnclamped(frame, col) ==
    IF DeltaComputed(frame, col)
    THEN Val(Total(frame, col)) - Val(First24h(frame, col))
    ELSE 0

DeltaFromFirstRow(frame, col) ==
    IF /\ Len(frame) > 1
       /\ Total(frame, col) # None
       /\ Get(frame, frame[1], col, None) # None
    THEN Max2(0, Val(Total(frame, col))
                   - Val(Get(frame, frame[1], col, Some(0))))
    ELSE 0

\* max(0, total - first_24h.get(col, 0)), or the initial 0
Delta24h(frame, col) ==
    IF DeltaComputed(frame, col)
    THEN Max2(0, Val(Total(frame, col)) - Val(First24h(frame, col)))
    ELSE 0

EmptyHealthZeroTemps(type) ==
    [drive_type |-> type,
     temperature_current |-> Some(0),
     temperature_max_24h |-> Some(0),
     temperature_mean_24h |-> Some(<<0, 1>>),
     temperature_warning |-> None,
     temperature_critical |-> None,
     temperature_operational_max |-> None,
     reallocated_sectors_total |-> Some(0),
     pending_sectors_total |-> Some(0),
     uncorrectable_sectors_total |-> Some(0),
     read_errors_total |-> Some(0),
     media_errors_total |-> Some(0),
     reallocated_sectors_24h |-> 0,
     pending_sectors_24h |-> 0,
     uncorrectable_sectors_24h |-> 0,
     read_errors_24h |-> 0,
     media_errors_24h |-> 0,
     available_spare_pct |-> None,
     percentage_used |-> None,
     power_on_hours |-> Some(0),
     power_cycles |-> Some(0),
     unsafe_shutdowns |-> Some(0),
     last_updated |-> None]

EmptyHealth(type) ==
    [drive_type |-> type,
     temperature_current |-> None,
     temperature_max_24h |-> None,
     temperature_mean_24h |-> None,
     temperature_warning |-> None,
     temperature_critical |-> None,
     temperature_operational_max |-> None,
     reallocated_sectors_total |-> Some(0),
     pending_sectors_total |-> Some(0),
     uncorrectable_sectors_total |-> Some(0),
     read_errors_total |-> Some(0),
     media_errors_total |-> Some(0),
     reallocated_sectors_24h |-> 0,
     pending_sectors_24h |-> 0,
     uncorrectable_sectors_24h |-> 0,
     read_errors_24h |-> 0,
     media_errors_24h |-> 0,
     available_spare_pct |-> None,
     percentage_used |-> None,
     power_on_hours |-> Some(0),
     power_cycles |-> Some(0),
     unsafe_shutdowns |-> Some(0),
     last_updated |-> None]

\* analyze_ata_health(df, serial, device_path, thresholds=None), when it returns
analyze_ata_health(frame) ==
    IF frame = <<>> THEN EmptyHealth("ata")
    ELSE [EmptyHealth("ata") EXCEPT
            !.temperature_current = TempCurrent("ata", frame),
            !.temperature_max_24h = TempMax24h("ata", frame),
            !.temperature_mean_24h = TempMean24h("ata", frame),
            !.temperature_critical = Some(70),
            !.temperature_operational_max = Some(60),
            !.reallocated_sectors_total = Total(frame, "attr_5_raw"),
            !.pending_sectors_total = Total(frame, "attr_197_raw"),
            !.uncorrectable_sectors_total = Total(frame, "attr_198_raw"),
            !.read_errors_total = Total(frame, "attr_1_raw"),
            !.reallocated_sectors_24h = Delta24h(frame, "attr_5_raw"),
            !.pending_sectors_24h = Delta24h(frame, "attr_197_raw"),
            !.uncorrectable_sectors_24h = Delta24h(frame, "attr_198_raw"),
            !.read_errors_24h = Delta24h(frame, "attr_1_raw"),
            !.power_on_hours = Total(frame, "attr_9_raw"),
            !.power_cycles = Total(frame, "attr_12_raw"),
            !.last_updated = Some(MaxTimestamp(frame))]

AtaRaises(frame) ==
    /\ frame # <<>>
    /\ \E col \in AtaCounterColumns : DeltaRaises(frame, col)

\* analyze_nvme_health(df, serial, device_path, thresholds=None), when it returns
analyze_nvme_health(frame) ==
    IF frame = <<>> THEN EmptyHealth("nvme")
    ELSE [EmptyHealth("nvme") EXCEPT
            !.temperature_current = TempCurrent("nvme", frame),
            !.temperature_max_24h = TempMax24h("nvme", frame),
            !.temperature_mean_24h = TempMean24h("nvme", frame),
            !.temperature_warning = Some(85),
            !.temperature_critical = Some(95),
            !.temperature_operational_max = Some(85),
            !.media_errors_total = Total(frame, "media_and_data_integrity_errors"),
            !.media_errors_24h = Delta24h(frame, "media_and_data_integrity_errors"),
            !.available_spare_pct = Get(frame, Latest(frame), "available_spare", None),
            !.percentage_used = Get(frame, Latest(frame), "percentage_used", None),
            !.unsafe_shutdowns = Total(frame, "unsafe_shutdowns"),
            !.power_on_hours = Total(frame, "power_on_hours"),
            !.power_cycles = Total(frame, "power_cycles"),
            !.last_updated = Some(MaxTimestamp(frame))]

NvmeRaises(frame) ==
    /\ frame # <<>>
    /\ DeltaRaises(frame, "media_and_data_integrity_errors")

InitEval ==
    /\ pc = "start"
    /\ drives = <<>>
    /\ system = NoSystem
    /\ outcome = "none"
    /\ drive_type \in DriveTypes
    /\ \E c \in CounterColumns(drive_type), n \in 0..MaxRecords :
         \E ts \in SortedTimes(n), as \in [1..n -> RowAttrs(drive_type, c)] :
            df = [i \in 1..n |-> [timestamp |-> ts[i], attrs |-> as[i]]]
    /\ health = NoHealth
    /\ args = <<>>
    /\ env = <<>>
    /\ result = <<>>
    /\ locals = <<>>

AnalyzeAta ==
    /\ pc = "start"
    /\ drive_type = "ata"
    /\ pc' = "done"
    /\ IF AtaRaises(df)
       THEN outcome' = "raised" /\ health' = NoHealth
       ELSE outcome' = "returned" /\ health' = analyze_ata_health(df)
    /\ UNCHANGED <<drives, system, drive_type, df, args, env, result, locals>>

AnalyzeNvme ==
    /\ pc = "start"
    /\ drive_type = "nvme"
    /\ pc' = "done"
    /\ IF NvmeRaises(df)
       THEN outcome' = "raised" /\ health' = NoHealth
       ELSE outcome' = "returned" /\ health' = analyze_nvme_health(df)
    /\ UNCHANGED <<drives, system, drive_type, df, args, env, result, locals>>

NextEval == AnalyzeAta \/ AnalyzeNvme

SpecEval == InitEval /\ [][NextEval]_vars

----------------------------------------------------------------------------
(* Claims about the Health Evaluator, stated on the rows of the series *)

Returned == pc = "done" /\ outcome = "returned"

N == Len(df)

\* the rows not older than 24h before the newest row (the last one: df is sorted)
WindowRows == {i \in 1..N : df[i].timestamp >= df[N].timestamp - HOURS_24}

FirstWindowRow == CHOOSE k \in WindowRows : \A i \in WindowRows : k <= i

Carries(i, col) == col \in DOMAIN df[i].attrs

WindowFieldOf(col) ==
    CASE col = "attr_5_raw" -> "reallocated_sectors_24h"
      [] col = "attr_197_raw" -> "pending_sectors_24h"
      [] col = "attr_198_raw" -> "uncorrectable_sectors_24h"
      [] col = "attr_1_raw" -> "read_errors_24h"
      [] col = "media_and_data_integrity_errors" -> "media_errors_24h"

TotalFieldOf(col) ==
    CASE col = "attr_5_raw" -> "reallocated_sectors_total"
      [] col = "attr_197_raw" -> "pending_sectors_total"
      [] col = "attr_198_raw" -> "uncorrectable_sectors_total"
      [] col = "attr_1_raw" -> "read_errors_total"
      [] col = "media_and_data_integrity_errors" -> "media_errors_total"

\* the counter of column col went down between the first row of the window
\* and the latest row
Decreased(col) ==
    /\ N > 0
    /\ FirstWindowRow < N
    /\ Carries(FirstWindowRow, col)
    /\ Carries(N, col)
    /\ df[N].attrs[col] < df[FirstWindowRow].attrs[col]

\* C6: every 24h counter of a returned DriveHealth is an integer >= 0, and a
\* counter that decreased inside the window gives 0 and a returned DriveHealth.
C6_WindowDeltasNonNegative ==
    pc = "done" =>
        /\ Returned => \A f \in WindowFields : health[f] \in Nat
        /\ \A col \in CounterColumns(drive_type) :
              Decreased(col) => Returned /\ health[WindowFieldOf(col)] = 0

C6_Witness ==
    /\ Returned
    /\ drive_type = "ata"
    /\ Decreased("attr_197_raw")
    /\ health.pending_sectors_24h = 0

\* C7: with at least two rows in the window, the 24h counter of an attribute
\* that the first row of the window and the latest row carry is
\* max(0, latest - first); with fewer than two rows in the window it is 0.
C7_WindowDeltaValue ==
    pc = "done" /\ N > 0 =>
        \A col \in CounterColumns(drive_type) :
            /\ (/\ Cardinality(WindowRows) >= 2
                /\ Carries(FirstWindowRow, col)
                /\ Carries(N, col))
               => /\ Returned
                  /\ health[WindowFieldOf(col)] =
                        Max2(0, df[N].attrs[col] - df[FirstWindowRow].attrs[col])
                  /\ health[TotalFieldOf(col)] = Some(df[N].attrs[col])
            /\ Cardinality(WindowRows) < 2
               => Returned /\ health[WindowFieldOf(col)] = 0

\* three rows in the window with attribute-5 raw values 0, 0, 1
C7_Witness ==
    /\ Returned
    /\ N = 3
    /\ Cardinality(WindowRows) = 3
    /\ \A i \in 1..3 : Carries(i, "attr_5_raw")
    /\ df[1].attrs["attr_5_raw"] = 0
    /\ df[2].attrs["attr_5_raw"] = 0
    /\ df[3].attrs["attr_5_raw"] = 1
    /\ health.reallocated_sectors_24h = 1
    /\ health.reallocated_sectors_total = Some(1)

\* the rows of the window that carry a temperature
WindowTempRows == {i \in WindowRows : Carries(i, TempColumn(drive_type))}

Reading(i) ==
    IF drive_type = "ata" THEN df[i].attrs["attr_194_raw"] % 256
    ELSE df[i].attrs["temperature"]

RECURSIVE SumReadings(_)
SumReadings(I) ==
    IF I = {} THEN 0
    ELSE LET i == CHOOSE x \in I : TRUE IN Reading(i) + SumReadings(I \ {i})

\* C8: the window is the set of rows with timestamp >= newest - 24h: the mean
\* temperature is taken over exactly these rows and the deltas start from the
\* earliest of them, so a row exactly 24h older than the newest is inside and a
\* row one second older is outside.
C8_WindowInclusive ==
    Returned /\ N > 0 =>
        /\ health.temperature_mean_24h =
              IF WindowTempRows = {} THEN None
              ELSE Some(<<SumReadings(WindowTempRows), Cardinality(WindowTempRows)>>)
        /\ \A col \in CounterColumns(drive_type) :
              (/\ FirstWindowRow < N
               /\ Carries(FirstWindowRow, col)
               /\ Carries(N, col))
              => health[WindowFieldOf(col)] =
                    Max2(0, df[N].attrs[col] - df[FirstWindowRow].attrs[col])

\* rows at seconds 0, 1 and 24h + 1: the row at second 1 is the first row of
\* the window, the row at second 0 is outside
C8_Witness ==
    /\ Returned
    /\ drive_type = "nvme"
    /\ N = 3
    /\ df[1].timestamp = 0
    /\ df[2].timestamp = df[3].timestamp - HOURS_24
    /\ \A i \in 1..3 : Carries(i, "temperature")
    /\ \A i \in 1..3 : Carries(i, "media_and_data_integrity_errors")
    /\ df[1].attrs["media_and_data_integrity_errors"] = 1
    /\ df[2].attrs["media_and_data_integrity_errors"] = 0
    /\ df[3].attrs["media_and_data_integrity_errors"] = 1
    /\ health.media_errors_24h = 1
    /\ Val(health.temperature_mean_24h)[2] = 2

\* C9: temperature_current of an ATA series is the raw value of attribute 194
\* of the latest row mod 256 (0x021F gives 31); of an NVMe series it is the
\* latest temperature unchanged; it is unset when the latest row has none.
C9_TemperatureLowerByte ==
    Returned /\ N > 0 =>
        /\ health.temperature_current =
              IF ~Carries(N, TempColumn(drive_type)) THEN None
              ELSE IF drive_type = "ata"
                   THEN Some(df[N].attrs["attr_194_raw"] % 256)
                   ELSE Some(df[N].attrs["temperature"])
        /\ (/\ drive_type = "ata"
            /\ Carries(N, "attr_194_raw")
            /\ df[N].attrs["attr_194_raw"] = 543)
           => health.temperature_current = Some(31)

C9_Witness ==
    /\ Returned
    /\ drive_type = "ata"
    /\ N > 0
    /\ Carries(N, "attr_194_raw")
    /\ df[N].attrs["attr_194_raw"] = 543
    /\ health.temperature_current = Some(31)

\* C10: temperature_max_24h is the largest decoded reading of the rows of the
\* window (older rows never contribute); when no row of the window carries a
\* temperature, temperature_max_24h and temperature_mean_24h are both unset.
C10_WindowMaxTemperature ==
    Returned /\ N > 0 =>
        IF WindowTempRows = {}
        THEN /\ health.temperature_max_24h = None
             /\ health.temperature_mean_24h = None
        ELSE /\ health.temperature_max_24h # None
             /\ health.temperature_mean_24h # None
             /\ \E i \in WindowTempRows :
                    Val(health.temperature_max_24h) = Reading(i)
             /\ \A i \in WindowTempRows :
                    Reading(i) <= Val(health.temperature_max_24h)

\* a hotter reading (0x21F = 31) older than the window, a cooler one (0x100 = 0)
\* inside it
C10_Witness ==
    /\ Returned
    /\ drive_type = "ata"
    /\ N = 2
    /\ WindowRows = {2}
    /\ Carries(1, "attr_194_raw")
    /\ Carries(2, "attr_194_raw")
    /\ df[1].attrs["attr_194_raw"] = 543
    /\ df[2].attrs["attr_194_raw"] = 256
    /\ health.temperature_max_24h = Some(0)

----------------------------------------------------------------------------
(* Claims about the cumulative counters and the fleet sums *)

UsageFields == {"power_on_hours", "power_cycles", "unsafe_shutdowns"}

\* C11: each cumulative counter and usage counter equals the latest row's value
\* of its attribute and is the integer 0 when the latest row does not carry
\* the attribute, also when earlier rows carry it; a DriveHealth is returned.
C11_TotalsFromLatest ==
    pc = "done" /\ N > 0 =>
        /\ Returned
        /\ \A col \in CounterColumns(drive_type) :
              health[TotalFieldOf(col)] =
                  IF Carries(N, col) THEN Some(df[N].attrs[col]) ELSE Some(0)
        /\ \A f \in UsageFields : health[f] = Some(0)

SumWindowFields(d) ==
    d.reallocated_sectors_24h + d.pending_sectors_24h
        + d.uncorrectable_sectors_24h + d.read_errors_24h + d.media_errors_24h

\* C19: total_errors_24h is the sum of all five 24h counters over the devices.
C19_TotalErrorsAllFive ==
    Classified => system.total_errors_24h = SumWindowFields(TheDrive)

----------------------------------------------------------------------------
(* Health Evaluator called with serial, device path and thresholds          *)
(*                                                                         *)
(* The thresholds argument is None or a dict: a function from some of the  *)
(* three keys to an Optional number.                                       *)

ThresholdKeys == {"warning", "critical", "operational_max"}

\* limits a caller supplies: absent (None), zero, fifty degrees
LimitSamples == {None, Some(0), Some(50)}

ThresholdArgs ==
    {None} \cup {Some(d) : d \in UNION {[K -> LimitSamples] : K \in SUBSET ThresholdKeys}}

SerialSamples == {"1RJE48WM", "S4EWNX0M"}

PathSamples == {"", "/dev/sda"}

\* dict.get(key, default)
DictGet(d, key, default) == IF key \in DOMAIN d THEN d[key] ELSE default

\* "thresholds or {}"
OrEmptyDict(th) == IF th = None THEN <<>> ELSE Val(th)

DefaultForNone(d, key, default) ==
    IF key \in DOMAIN d /\ d[key] # None THEN d[key] ELSE default

AtaThresholdsSynthesized(th) ==
    LET d == OrEmptyDict(th)
    IN  [warning |-> DictGet(d, "warning", None),
         critical |-> DefaultForNone(d, "critical", Some(70)),
         operational_max |-> DefaultForNone(d, "operational_max", Some(60))]

\* analyze_ata_health: "Get thresholds"
AtaThresholds(th) ==
    LET d == OrEmptyDict(th)
    IN  [warning |-> DictGet(d, "warning", None),
         critical |-> DictGet(d, "critical", Some(70)),
         operational_max |-> DictGet(d, "operational_max", Some(60))]

\* analyze_nvme_health: "Get thresholds"
NvmeThresholds(th) ==
    LET d == OrEmptyDict(th)
    IN  [warning |-> DictGet(d, "warning", Some(85)),
         critical |-> DictGet(d, "critical", Some(95)),
         operational_max |-> DictGet(d, "operational_max", Some(85))]

FamilyThresholds(type, th) ==
    IF type = "ata" THEN AtaThresholds(th) ELSE NvmeThresholds(th)

\* analyze_*_health(df, serial, device_path, thresholds), when it returns: the
\* early return for an empty frame reads no threshold
HealthOf(type, frame, a) ==
    LET h == IF type = "ata" THEN analyze_ata_health(frame)
             ELSE analyze_nvme_health(frame)
        t == FamilyThresholds(type, a.thresholds)
        id == [serial |-> a.serial, device_path |-> a.device_path]
    IN  IF frame = <<>> THEN id @@ h
        ELSE id @@ [h EXCEPT !.temperature_warning = t.warning,
                             !.temperature_critical = t.critical,
                             !.temperature_operational_max = t.operational_max]

\* the series drawn for a call: the empty frame and the frames of one row
CallFrames(type) ==
    {<<>>} \cup
    {<<[timestamp |-> 0, attrs |-> a]>> :
        a \in UNION {RowAttrs(type, c) : c \in CounterColumns(type)}}

InitCall ==
    /\ pc = "start"
    /\ drives = <<>>
    /\ system = NoSystem
    /\ outcome = "none"
    /\ drive_type \in DriveTypes
    /\ df \in CallFrames(drive_type)
    /\ health = NoHealth
    /\ args \in [serial : SerialSamples, device_path : PathSamples,
                 thresholds : ThresholdArgs]
    /\ env = <<>>
    /\ result = <<>>
    /\ locals = <<>>

AnalyzeAtaCall ==
    /\ pc = "start"
    /\ drive_type = "ata"
    /\ pc' = "done"
    /\ IF AtaRaises(df)
       THEN outcome' = "raised" /\ health' = NoHealth
       ELSE outcome' = "returned" /\ health' = HealthOf("ata", df, args)
    /\ UNCHANGED <<drives, system, drive_type, df, args, env, result, locals>>

AnalyzeNvmeCall ==
    /\ pc = "start"
    /\ drive_type = "nvme"
    /\ pc' = "done"
    /\ IF NvmeRaises(df)
       THEN outcome' = "raised" /\ health' = NoHealth
       ELSE outcome' = "returned" /\ health' = HealthOf("nvme", df, args)
    /\ UNCHANGED <<drives, system, drive_type, df, args, env, result, locals>>

NextCall == AnalyzeAtaCall \/ AnalyzeNvmeCall

SpecCall == InitCall /\ [][NextCall]_vars

\* C12: for an empty series the evaluator returns a DriveHealth with the given
\* serial, device path and family, the three temperatures unset, the ten
\* error counters 0, power_on_hours and power_cycles 0, last_updated unset.
C12_EmptySeries ==
    pc = "done" /\ df = <<>> =>
        /\ outcome = "returned"
        /\ health.serial = args.serial
        /\ health.device_path = args.device_path
        /\ health.drive_type = drive_type
        /\ health.temperature_current = None
        /\ health.temperature_max_24h = None
        /\ health.temperature_mean_24h = None
        /\ \A f \in TotalFields : health[f] = Some(0)
        /\ \A f \in WindowFields : health[f] = 0
        /\ health.power_on_hours = Some(0)
        /\ health.power_cycles = Some(0)
        /\ health.last_updated = None

C12_Witness ==
    /\ Returned
    /\ df = <<>>
    /\ drive_type = "nvme"
    /\ args.thresholds # None
    /\ health.serial = "S4EWNX0M"
    /\ health.device_path = "/dev/sda"
    /\ health.temperature_current = None

ThresholdField(h, key) ==
    CASE key = "warning" -> h.temperature_warning
      [] key = "critical" -> h.temperature_critical
      [] key = "operational_max" -> h.temperature_operational_max

\* C13: for a non-empty series, without thresholds the DriveHealth carries the
\* family defaults (ATA: unset, 70, 60; NVMe: 85, 95, 85); every value of a
\* supplied ThresholdSet, None included, is carried through unchanged.
C13_ThresholdsAsGiven ==
    Returned /\ df # <<>> =>
        /\ args.thresholds = None =>
              /\ health.temperature_warning =
                    IF drive_type = "ata" THEN None ELSE Some(85)
              /\ health.temperature_critical =
                    IF drive_type = "ata" THEN Some(70) ELSE Some(95)
              /\ health.temperature_operational_max =
                    IF drive_type = "ata" THEN Some(60) ELSE Some(85)
        /\ args.thresholds # None =>
              \A key \in DOMAIN Val(args.thresholds) :
                  ThresholdField(health, key) = Val(args.thresholds)[key]

\* a ThresholdSet whose critical limit is supplied as None
C13_Witness ==
    /\ Returned
    /\ df # <<>>
    /\ drive_type = "ata"
    /\ args.thresholds # None
    /\ DOMAIN Val(args.thresholds) = ThresholdKeys
    /\ Val(args.thresholds)["critical"] = None
    /\ Val(args.thresholds)["operational_max"] = Some(50)
    /\ health.temperature_critical = None
    /\ health.temperature_operational_max = Some(50)

----------------------------------------------------------------------------
(* Threshold Resolver: query_ata_thresholds and query_nvme_thresholds      *)
(*                                                                         *)
(* The executor (ssh_command, or subprocess.run) raises, returns the text  *)
(* the command printed, or never returns.  The text is empty, not JSON, a  *)
(* JSON array, or a JSON object; a limit of the object is a number         *)
(* (Some(n)) or a value that is no number (None), or the key is missing.   *)

LimitKeys(type) ==
    IF type = "ata" THEN {"limit_max", "op_limit_max"} ELSE {"wctemp", "cctemp"}

\* limits a device reports: ATA in Celsius, NVMe in Kelvin
ReportedLimits(type) ==
    IF type = "ata" THEN {None, Some(65)} ELSE {None, Some(343)}

\* the "temperature" member of the smartctl object: missing, no object, an object
TemperatureShapes(type) ==
    IF type = "ata" THEN {"missing", "scalar", "object"} ELSE {"object"}

Outputs(type) ==
    {[kind |-> k, temperature |-> "missing", limits |-> <<>>] :
        k \in {"empty", "garbage", "array"}}
    \cup
    {[kind |-> "object", temperature |-> t, limits |-> l] :
        t \in TemperatureShapes(type),
        l \in UNION {[K -> ReportedLimits(type)] : K \in SUBSET LimitKeys(type)}}

AtaDefaults == [warning |-> None, critical |-> Some(70), operational_max |-> Some(60)]

NvmeDefaults == [warning |-> Some(85), critical |-> Some(95), operational_max |-> Some(85)]

\* json.loads(output) raises for text that is not JSON
JsonFails(out) == out.kind \in {"empty", "garbage"}

\* the body of the try block of query_ata_thresholds fails: the executor
\* raised, json.loads raised, .get on a value that is no dict, float() of a
\* value that is no number
AtaTryFails(e) ==
    \/ e.behaviour = "raises"
    \/ JsonFails(e.stdout)
    \/ e.stdout.kind = "array"
    \/ e.stdout.temperature = "scalar"
    \/ /\ e.stdout.temperature = "object"
       /\ \E k \in DOMAIN e.stdout.limits : e.stdout.limits[k] = None

\* temp_info = data.get("temperature", {})
TempInfo(out) == IF out.temperature = "object" THEN out.limits ELSE <<>>

\* query_ata_thresholds(device_path, ssh_command): the exit status of the
\* command is not read
query_ata_thresholds(e) ==
    IF AtaTryFails(e) THEN AtaDefaults
    ELSE [warning |-> None,
          critical |-> DictGet(TempInfo(e.stdout), "limit_max", Some(70)),
          operational_max |-> DictGet(TempInfo(e.stdout), "op_limit_max", Some(60))]

NvmeTryFails(e) ==
    \/ e.behaviour = "raises"
    \/ JsonFails(e.stdout)
    \/ e.stdout.kind = "array"
    \/ \E k \in DOMAIN e.stdout.limits : e.stdout.limits[k] = None

\* Kelvin to Celsius
Celsius(k) == Some(Val(k) - 273)

\* query_nvme_thresholds(device_path, ssh_command)
query_nvme_thresholds(e) ==
    IF NvmeTryFails(e) THEN NvmeDefaults
    ELSE LET wctemp_k == DictGet(e.stdout.limits, "wctemp", Some(358))
             cctemp_k == DictGet(e.stdout.limits, "cctemp", Some(368))
         IN  [warning |-> Celsius(wctemp_k),
              critical |-> Celsius(cctemp_k),
              operational_max |-> Celsius(wctemp_k)]

InitQuery ==
    /\ pc = "start"
    /\ drives = <<>>
    /\ system = NoSystem
    /\ outcome = "none"
    /\ drive_type \in DriveTypes
    /\ df = <<>>
    /\ health = NoHealth
    /\ args \in [via : {"ssh_command", "subprocess"}, device_path : {"/dev/sda"}]
    /\ env \in [behaviour : {"returns", "raises", "hangs"},
                exit_status : {0, 4},
                stdout : Outputs(drive_type)]
    /\ result = <<>>
    /\ locals = <<>>

\* the query calls the executor, which has no timeout
RunCommand ==
    /\ pc = "start"
    /\ pc' = "waiting"
    /\ UNCHANGED <<drives, system, outcome, drive_type, df, health, args, env, result, locals>>

\* the executor came back (with text or an exception): the rest of the query
QueryAta ==
    /\ pc = "waiting"
    /\ drive_type = "ata"
    /\ env.behaviour # "hangs"
    /\ pc' = "done"
    /\ outcome' = "returned"
    /\ result' = query_ata_thresholds(env)
    /\ UNCHANGED <<drives, system, drive_type, df, health, args, env, locals>>

QueryNvme ==
    /\ pc = "waiting"
    /\ drive_type = "nvme"
    /\ env.behaviour # "hangs"
    /\ pc' = "done"
    /\ outcome' = "returned"
    /\ result' = query_nvme_thresholds(env)
    /\ UNCHANGED <<drives, system, drive_type, df, health, args, env, locals>>

NextQuery == RunCommand \/ QueryAta \/ QueryNvme

\* a step that can be taken is taken: the process runs as long as it is not
\* blocked in the executor
SpecQuery == InitQuery /\ [][NextQuery]_vars /\ WF_vars(NextQuery)

FamilyDefaults == IF drive_type = "ata" THEN AtaDefaults ELSE NvmeDefaults

\* a failure of the diagnostic command, as the claim lists them
QueryFailed ==
    \/ env.behaviour = "raises"
    \/ env.exit_status # 0
    \/ env.stdout.kind # "object"
    \/ env.stdout.temperature = "scalar"
    \/ \E k \in LimitKeys(drive_type) :
          \/ k \notin DOMAIN TempInfo(env.stdout)
          \/ TempInfo(env.stdout)[k] = None

\* C14: the threshold queries never raise, and after every failure of the
\* command (executor raising, non-zero exit status, empty or malformed output,
\* a limit field missing) they return exactly the family's static defaults.
C14_FailureGivesDefaults ==
    pc = "done" =>
        /\ outcome = "returned"
        /\ QueryFailed => result = FamilyDefaults

\* C15: every run of a threshold query eventually returns or raises, also
\* when the command it executes never produces output.
C15_EventuallyReturns == <>(pc = "done")

----------------------------------------------------------------------------
(* Log Decoder: parse_ata_csv and parse_nvme_csv                           *)
(*                                                                         *)
(* A line is the sequence of its fields between ';', the timestamp field   *)
(* first.  Text to value conversions (strip, strptime, int, float, the     *)
(* f-string of a column name) are tables over the sampled texts.           *)

MaxFields == 6

MaxPairs == 2

\* str.strip()
Strip(s) == IF s = " 5" THEN "5" ELSE s

\* int(s) and float(s): None for ValueError
ParseNumber(s) ==
    CASE s = "5" -> Some(5)
      [] s = "194" -> Some(194)
      [] s = "57" -> Some(57)
      [] s = "100" -> Some(100)
      [] OTHER -> None

\* datetime.strptime(s, "%Y-%m-%d %H:%M:%S") in seconds after the first
\* sample: None for ValueError
strptime(s) ==
    CASE s = "2025-06-12 06:43:41" -> Some(0)
      [] s = "2025-06-12 06:43:42" -> Some(1)
      [] OTHER -> None

\* f"attr_{attr_id}_norm" and f"attr_{attr_id}_raw"
AttrKey(attr_id, suffix) ==
    CASE attr_id = 5 /\ suffix = "norm" -> "attr_5_norm"
      [] attr_id = 5 /\ suffix = "raw" -> "attr_5_raw"
      [] attr_id = 194 /\ suffix = "norm" -> "attr_194_norm"
      [] attr_id = 194 /\ suffix = "raw" -> "attr_194_raw"

\* value.rstrip('%')
RStripPercent(s) ==
    CASE s = "100%" -> "100"
      [] s = "abc%" -> "abc"
      [] OTHER -> s

\* value.endswith('%')
EndsWithPercent(s) == s \in {"100%", "abc%"}

AtaFieldSamples == {" 5", "194", "x"}

NvmeNameSamples == {"temperature", "available_spare", "model_number"}

NvmeValueSamples == {"57", "100%", "100", "abc%"}

RECURSIVE Flatten(_)
Flatten(pairs) ==
    IF pairs = <<>> THEN <<>> ELSE Head(pairs) \o Flatten(Tail(pairs))

FieldSeqs(type) ==
    IF type = "ata"
    THEN UNION {[1..n -> AtaFieldSamples] : n \in 0..MaxFields}
    ELSE {Flatten(ps) \o tail :
            ps \in UNION {[1..n -> NvmeNameSamples \X NvmeValueSamples] : n \in 0..MaxPairs},
            tail \in {<<>>, <<"">>}}

\* the line under study: a timestamp that parses or not, any fields
Lines(type) ==
    {<<ts>> \o fs : ts \in {"2025-06-12 06:43:41", "2025-06-12"}, fs \in FieldSeqs(type)}

\* a well-formed or undated line before or after it in the file
OtherLines(type) ==
    {<<ts>> \o fs :
        ts \in {"2025-06-12 06:43:41", "2025-06-12 06:43:42", "06:43"},
        fs \in IF type = "ata" THEN {<<"194", " 5", "194", "">>}
                               ELSE {<<"temperature", "57", "">>}}

CsvContents(type) ==
    {<<l>> : l \in Lines(type)}
    \cup {<<o, l>> : o \in OtherLines(type), l \in Lines(type)}
    \cup {<<l, o>> : o \in OtherLines(type), l \in Lines(type)}

\* parts[i] of Python, counted from 0
Part(parts, i) == parts[i + 1]

\* attrs[key] = value
Put(attrs, key, value) ==
    [k \in DOMAIN attrs \cup {key} |-> IF k = key THEN value ELSE attrs[k]]

\* the three int() calls of a group succeed
TripletParses(parts, i) ==
    /\ ParseNumber(Strip(Part(parts, i))) # None
    /\ ParseNumber(Strip(Part(parts, i + 1))) # None
    /\ ParseNumber(Strip(Part(parts, i + 2))) # None

PutTriplet(parts, i, attrs) ==
    LET attr_id == Val(ParseNumber(Strip(Part(parts, i))))
        norm_val == Val(ParseNumber(Strip(Part(parts, i + 1))))
        raw_val == Val(ParseNumber(Strip(Part(parts, i + 2))))
    IN  Put(Put(attrs, AttrKey(attr_id, "norm"), norm_val),
            AttrKey(attr_id, "raw"), raw_val)

RECURSIVE AtaTripletsResync(_, _, _)
AtaTripletsResync(parts, i, attrs) ==
    IF ~(i + 2 < Len(parts)) THEN attrs
    ELSE IF TripletParses(parts, i)
         THEN AtaTripletsResync(parts, i + 3, PutTriplet(parts, i, attrs))
         ELSE AtaTripletsResync(parts, i + 1, attrs)

\* the while loop of parse_ata_csv from index i on
RECURSIVE AtaTriplets(_, _, _)
AtaTriplets(parts, i, attrs) ==
    IF ~(i + 2 < Len(parts)) THEN attrs
    ELSE IF TripletParses(parts, i)
         THEN AtaTriplets(parts, i + 3, PutTriplet(parts, i, attrs))
         ELSE AtaTriplets(parts, i + 3, attrs)

IntNames == {"temperature", "power_cycles", "power_on_hours", "unsafe_shutdowns",
             "controller_busy_time", "media_and_data_integrity_errors",
             "error_information_log_entries"}

PercentNames == {"available_spare", "percentage_used"}

\* the value stored for a pair: an int, a float or the text
Coerce(attr_name, value) ==
    IF attr_name \in IntNames
    THEN IF ParseNumber(value) # None
         THEN [int |-> Val(ParseNumber(value))] ELSE [str |-> value]
    ELSE IF attr_name \in PercentNames /\ EndsWithPercent(value)
    THEN IF ParseNumber(RStripPercent(value)) # None
         THEN [float |-> Val(ParseNumber(RStripPercent(value)))] ELSE [str |-> value]
    ELSE [str |-> value]

\* the while loop of parse_nvme_csv from index i on
RECURSIVE NvmePairs(_, _, _)
NvmePairs(parts, i, attrs) ==
    IF ~(i + 1 < Len(parts)) THEN attrs
    ELSE LET attr_name == Strip(Part(parts, i))
             value == Strip(Part(parts, i + 1))
         IN  NvmePairs(parts, i + 2, Put(attrs, attr_name, Coerce(attr_name, value)))

\* the body of the loop over lines: the record of a line, None for no record
LineRecord(type, parts) ==
    IF Len(parts) < 2 THEN None
    ELSE IF strptime(Strip(Part(parts, 0))) = None THEN None
    ELSE LET attrs == IF type = "ata" THEN AtaTriplets(parts, 1, <<>>)
                                      ELSE NvmePairs(parts, 1, <<>>)
         IN  IF DOMAIN attrs = {} THEN None
             ELSE Some([timestamp |-> Val(strptime(Strip(Part(parts, 0)))),
                        attrs |-> attrs])

\* records, in the order of the lines
RECURSIVE Records(_, _)
Records(type, lines) ==
    IF lines = <<>> THEN <<>>
    ELSE LET r == LineRecord(type, Head(lines))
         IN  (IF r = None THEN <<>> ELSE <<Val(r)>>) \o Records(type, Tail(lines))

RowOrders(n) ==
    {p \in [1..n -> 1..n] : \A i \in 1..n, j \in 1..n : i # j => p[i] # p[j]}

\* DataFrame.sort('timestamp'), maintain_order left at False: rows in
\* non-decreasing timestamp order, rows of equal timestamp in any order
Sorts(records) ==
    LET n == Len(records)
    IN  {[i \in 1..n |-> records[p[i]]] :
            p \in {q \in RowOrders(n) :
                     \A i \in 1..n, j \in 1..n :
                        i < j => records[q[i]].timestamp <= records[q[j]].timestamp}}

InitParse ==
    /\ pc = "start"
    /\ drives = <<>>
    /\ system = NoSystem
    /\ outcome = "none"
    /\ drive_type \in DriveTypes
    /\ df = <<>>
    /\ health = NoHealth
    /\ args \in [csv_content : CsvContents(drive_type)]
    /\ env = <<>>
    /\ result = <<>>
    /\ locals = <<>>

ParseAtaCsv ==
    /\ pc = "start"
    /\ drive_type = "ata"
    /\ pc' = "done"
    /\ outcome' = "returned"
    /\ df' \in Sorts(Records("ata", args.csv_content))
    /\ UNCHANGED <<drives, system, drive_type, health, args, env, result, locals>>

ParseNvmeCsv ==
    /\ pc = "start"
    /\ drive_type = "nvme"
    /\ pc' = "done"
    /\ outcome' = "returned"
    /\ df' \in Sorts(Records("nvme", args.csv_content))
    /\ UNCHANGED <<drives, system, drive_type, health, args, env, result, locals>>

NextParse == ParseAtaCsv \/ ParseNvmeCsv

SpecParse == InitParse /\ [][NextParse]_vars

----------------------------------------------------------------------------
(* Claims C16 - C18 *)

Parsed == pc = "done" /\ outcome = "returned" /\ args # <<>> /\ "csv_content" \in DOMAIN args

\* the fields of a line after the timestamp
FieldsOf(line) == Tail(line)

\* a line the claims say is kept: its timestamp has the format
Dated(line) == line[1] \in {"2025-06-12 06:43:41", "2025-06-12 06:43:42"}

TimeOfLine(line) == IF line[1] = "2025-06-12 06:43:41" THEN 0 ELSE 1

IsInteger(field) == field \in {" 5", "194"}

IntegerOf(field) == IF field = " 5" THEN 5 ELSE 194

\* complete groups of three, counted from 0
GroupsOf(line) == 0..((Len(FieldsOf(line)) \div 3) - 1)

GroupField(line, g, k) == FieldsOf(line)[3 * g + k]

ValidGroup(line, g) == \A k \in 1..3 : IsInteger(GroupField(line, g, k))

ValidGroups(line) == {g \in GroupsOf(line) : ValidGroup(line, g)}

GroupId(line, g) == IntegerOf(GroupField(line, g, 1))

\* the last valid group of the line that carries the id of group g
LastWithId(line, g) ==
    CHOOSE h \in ValidGroups(line) :
        /\ GroupId(line, h) = GroupId(line, g)
        /\ \A h2 \in ValidGroups(line) : GroupId(line, h2) = GroupId(line, g) => h2 <= h

Emits(line) == Dated(line) /\ ValidGroups(line) # {}

ColumnOf(id, k) ==
    IF id = 5 THEN (IF k = 2 THEN "attr_5_norm" ELSE "attr_5_raw")
    ELSE (IF k = 2 THEN "attr_194_norm" ELSE "attr_194_raw")

\* the record holds the values of group g under the id of g
Contributes(row, line, g) ==
    \A k \in 2..3 :
        /\ ColumnOf(GroupId(line, g), k) \in DOMAIN row.attrs
        /\ row.attrs[ColumnOf(GroupId(line, g), k)] = IntegerOf(GroupField(line, g, k))

\* the record of a line: the columns of its valid groups and nothing else
RecordOf(row, line) ==
    /\ row.timestamp = TimeOfLine(line)
    /\ DOMAIN row.attrs =
         {ColumnOf(GroupId(line, g), k) : g \in ValidGroups(line), k \in 2..3}
    /\ \A g \in ValidGroups(line) : Contributes(row, line, LastWithId(line, g))

EmittingLines == {i \in 1..Len(args.csv_content) : Emits(args.csv_content[i])}

\* C16 (as stated): groups of exactly three without re-synchronisation, every
\* valid group contributes its normalized and raw value under its id, a line
\* with a bad timestamp or without a valid group emits no record, the other
\* lines are still decoded.
C16_EveryGroupContributes ==
    (Parsed /\ drive_type = "ata") =>
        /\ Len(df) = Cardinality(EmittingLines)
        /\ \A i \in EmittingLines :
              \E r \in 1..Len(df) :
                  /\ df[r].timestamp = TimeOfLine(args.csv_content[i])
                  /\ DOMAIN df[r].attrs =
                       {ColumnOf(GroupId(args.csv_content[i], g), k) :
                           g \in ValidGroups(args.csv_content[i]), k \in 2..3}
                  /\ \A g \in ValidGroups(args.csv_content[i]) :
                        Contributes(df[r], args.csv_content[i], g)

\* C16 (amended): as C16, but of several valid groups of a line with the
\* same id the last one gives the values kept under that id.
C16_GroupsOfThree ==
    (Parsed /\ drive_type = "ata") =>
        /\ Len(df) = Cardinality(EmittingLines)
        /\ \A i \in EmittingLines :
              \E r \in 1..Len(df) : RecordOf(df[r], args.csv_content[i])
        /\ \A r \in 1..Len(df) :
              \E i \in EmittingLines : RecordOf(df[r], args.csv_content[i])

\* a file of two lines: one undated, the other with a group that is not three
\* integers before a valid group, decoded into one record
C16_Witness ==
    /\ Parsed /\ drive_type = "ata"
    /\ Len(args.csv_content) = 2
    /\ \E i \in 1..2 : ~Dated(args.csv_content[i])
    /\ \E i \in EmittingLines :
          /\ ~ValidGroup(args.csv_content[i], 0)
          /\ ValidGroup(args.csv_content[i], 1)
    /\ Len(df) = 1


\* complete (name, value) pairs of a line, counted from 1
PairsOf(line) == 1..(Len(FieldsOf(line)) \div 2)

PairName(line, j) == FieldsOf(line)[2 * j - 1]

PairValue(line, j) == FieldsOf(line)[2 * j]

\* no later pair of the line has the same name
LastOfName(line, j) ==
    \A j2 \in PairsOf(line) : PairName(line, j2) = PairName(line, j) => j2 <= j

\* the number a text denotes once a trailing '%' is stripped, if any
PercentNumber(text) ==
    CASE text \in {"100", "100%"} -> Some(100)
      [] text = "57" -> Some(57)
      [] OTHER -> None

PlainNumber(text) ==
    CASE text = "100" -> Some(100)
      [] text = "57" -> Some(57)
      [] OTHER -> None

\* the stored value the claim gives for a pair
ClaimedValue(name, text) ==
    IF name \in {"temperature"}
    THEN IF PlainNumber(text) # None THEN [int |-> Val(PlainNumber(text))]
         ELSE [str |-> text]
    ELSE IF name \in {"available_spare"}
    THEN IF PercentNumber(text) # None THEN [float |-> Val(PercentNumber(text))]
         ELSE [str |-> text]
    ELSE [str |-> text]

\* C17: parse_nvme_csv takes the fields in (name, value) pairs; integer names
\* are stored as integers, available_spare and percentage_used as the number
\* left after stripping a trailing '%' if present ("100%" and "100" both give
\* 100), other names as text, and a value that does not parse stays text while
\* the rest of the line is decoded.
C17_NvmeCoercion ==
    (Parsed /\ drive_type = "nvme") =>
        \A i \in 1..Len(args.csv_content) :
            (Dated(args.csv_content[i]) /\ PairsOf(args.csv_content[i]) # {}) =>
                \E r \in 1..Len(df) :
                    /\ df[r].timestamp = TimeOfLine(args.csv_content[i])
                    /\ DOMAIN df[r].attrs =
                         {PairName(args.csv_content[i], j) : j \in PairsOf(args.csv_content[i])}
                    /\ \A j \in PairsOf(args.csv_content[i]) :
                          LastOfName(args.csv_content[i], j) =>
                              df[r].attrs[PairName(args.csv_content[i], j)] =
                                  ClaimedValue(PairName(args.csv_content[i], j),
                                               PairValue(args.csv_content[i], j))

\* C18: the returned records have non-decreasing timestamps, are exactly the
\* records of the lines that were not dropped, and records of equal timestamp
\* keep their input order, so the last row is the last-in-input record of the
\* maximum timestamp.
C18_SortedStable ==
    Parsed =>
        LET records == Records(drive_type, args.csv_content)
            n == Len(records)
        IN  /\ Len(df) = n
            /\ \E p \in RowOrders(n) :
                  /\ df = [i \in 1..n |-> records[p[i]]]
                  /\ \A i \in 1..n, j \in 1..n :
                        i < j =>
                            \/ records[p[i]].timestamp < records[p[j]].timestamp
                            \/ /\ records[p[i]].timestamp = records[p[j]].timestamp
                               /\ p[i] < p[j]

----------------------------------------------------------------------------
(* analyze_smart_directory from its entry                                  *)
(*                                                                         *)
(* args: the path is a directory or not, the flags, the mapping given and  *)
(* the files the glob finds.  env: the state of the logger of the package, *)
(* the commands run, the files read and what `smartctl --scan` does.       *)

MaxFiles == 2

\* device_mapping: None, {} or a mapping with the serial of the files
Mappings == {"None", "empty", "maps_serial"}

\* a file the glob finds: a name without .ata.csv/.nvme.csv, a file whose
\* read raises, a file without content of either family, an ATA log whose
\* latest line lacks a counter that an older line (outside or inside the
\* window) carries, an ATA log with a new reallocated sector, an NVMe log of
\* a quiet drive
FileKinds == {"bad_name", "unreadable", "empty_ata", "empty_nvme",
              "stale_counter_ata", "gap_counter_ata", "errors_ata", "quiet_nvme"}

\* the serial in the name of the file
FileSerial(kind) ==
    CASE kind \in {"unreadable", "empty_ata", "errors_ata"} -> "1RJE48WM"
      [] kind \in {"empty_nvme", "quiet_nvme"} -> "S4EWNX0M123456"
      [] OTHER -> "WD40"

\* what parse_smart_csv returns for the file
FileFrame(kind) ==
    CASE kind = "stale_counter_ata" ->
           <<[timestamp |-> 0, attrs |-> [k \in {"attr_5_raw"} |-> 1]],
             [timestamp |-> HOURS_24 + 1, attrs |-> [k \in {"attr_194_raw"} |-> 256]]>>
      [] kind = "gap_counter_ata" ->
           <<[timestamp |-> 0, attrs |-> [k \in {"attr_5_raw"} |-> 1]],
             [timestamp |-> 1, attrs |-> [k \in {"attr_194_raw"} |-> 256]]>>
      [] kind = "errors_ata" ->
           <<[timestamp |-> 0,
              attrs |-> [k \in {"attr_5_raw", "attr_9_raw", "attr_194_raw"} |->
                           CASE k = "attr_5_raw" -> 0 [] k = "attr_9_raw" -> 7
                             [] OTHER -> 256]],
             [timestamp |-> 1,
              attrs |-> [k \in {"attr_5_raw", "attr_9_raw", "attr_194_raw"} |->
                           CASE k = "attr_5_raw" -> 1 [] k = "attr_9_raw" -> 8
                             [] OTHER -> 543]]>>
      [] kind = "quiet_nvme" ->
           <<[timestamp |-> 0,
              attrs |-> [k \in {"temperature", "power_on_hours",
                                "media_and_data_integrity_errors"} |->
                           CASE k = "temperature" -> 49 [] k = "power_on_hours" -> 5
                             [] OTHER -> 0]]>>
      [] OTHER -> <<>>

\* the mapping as a dict from serial to device path
MappingDict(m) ==
    IF m = "maps_serial" THEN [k \in {"1RJE48WM"} |-> "/dev/sda"] ELSE <<>>

\* serial[:8]
First8(serial) == IF serial = "S4EWNX0M123456" THEN "S4EWNX0M" ELSE serial

\* f"/dev/unknown_{serial[:8]}"
Placeholder(serial) ==
    CASE First8(serial) = "1RJE48WM" -> "/dev/unknown_1RJE48WM"
      [] First8(serial) = "S4EWNX0M" -> "/dev/unknown_S4EWNX0M"
      [] First8(serial) = "WD40" -> "/dev/unknown_WD40"

DevicePathWholeSerial(m, serial) ==
    DictGet(MappingDict(m), serial,
            IF serial = "S4EWNX0M123456" THEN "/dev/unknown_S4EWNX0M123456"
            ELSE Placeholder(serial))

\* device_mapping.get(serial, f"/dev/unknown_{serial[:8]}")
DevicePath(m, serial) == DictGet(MappingDict(m), serial, Placeholder(serial))

\* what smartctl and nvme do when a threshold query runs them: as the scan
\* does, they fail or they print the limits of the device
QueryExecutor(type, scan) ==
    IF scan = "one_device"
    THEN [behaviour |-> "returns", exit_status |-> 0,
          stdout |-> [kind |-> "object", temperature |-> "object",
                      limits |-> IF type = "ata"
                                 THEN [k \in {"limit_max"} |-> Some(65)]
                                 ELSE [k \in {"wctemp"} |-> Some(343)]]]
    ELSE [behaviour |-> "raises", exit_status |-> 0,
          stdout |-> [kind |-> "empty", temperature |-> "missing", limits |-> <<>>]]

\* lines 798-807: thresholds stay None for the placeholder path
QueriedThresholds(type, device_path, serial, scan) ==
    IF device_path = Placeholder(serial) THEN None
    ELSE IF type = "ata" THEN Some(query_ata_thresholds(QueryExecutor(type, scan)))
    ELSE Some(query_nvme_thresholds(QueryExecutor(type, scan)))

ScanOutcomes == {"raises", "no_output", "one_device", "hangs"}

\* lines 723-730: the directory check, then logger.disable unless verbose
LoggerDisabledFirst(a, e) ==
    IF ~a.verbose
    THEN [e EXCEPT !.logger_enabled = FALSE, !.logger_calls = @ + 1]
    ELSE e

LoggerAtEntry(a, e) ==
    IF ~a.is_dir THEN e
    ELSE IF ~a.verbose
    THEN [e EXCEPT !.logger_enabled = FALSE, !.logger_calls = @ + 1]
    ELSE e

\* logger.enable before the return of an empty SystemHealth
LoggerAtEmptyReturn(a, e) ==
    IF ~a.verbose
    THEN [e EXCEPT !.logger_enabled = TRUE, !.logger_calls = @ + 1]
    ELSE e

\* the SystemHealth literal of lines 759-775 and 824-840
EmptySystemHealth ==
    [drives |-> <<>>,
     total_drives |-> 0,
     healthy_drives |-> 0,
     warning_drives |-> 0,
     critical_drives |-> 0,
     total_errors_24h |-> 0,
     max_temperature |-> 0,
     total_reallocated_sectors |-> 0,
     total_pending_sectors |-> 0,
     total_media_errors |-> 0,
     oldest_drive_hours |-> 0,
     newest_drive_hours |-> 0,
     nvme_drives |-> 0,
     ata_drives |-> 0,
     last_updated |-> Some(CallTime)]

InitDir ==
    /\ pc = "enter"
    /\ drives = <<>>
    /\ system = NoSystem
    /\ outcome = "none"
    /\ drive_type = "none"
    /\ df = <<>>
    /\ health = NoHealth
    /\ args \in {a \in [is_dir : BOOLEAN, verbose : BOOLEAN,
                       auto_discover_devices : BOOLEAN,
                       device_mapping : Mappings,
                       csv_files : UNION {[1..n -> FileKinds] : n \in 0..MaxFiles}] :
                    ~a.is_dir => a.csv_files = <<>>}
    /\ env \in [logger_enabled : BOOLEAN, logger_calls : {0},
                commands_run : {0}, files_read : {0}, scan : ScanOutcomes]
    /\ result = <<>>
    /\ locals = <<>>

\* lines 723-733: raise ValueError for a path that is no directory, else
\* configure the logger and decide on auto-discovery
EnterDirectory ==
    /\ pc = "enter"
    /\ env' = LoggerAtEntry(args, env)
    /\ IF ~args.is_dir
       THEN /\ pc' = "done"
            /\ outcome' = "raised"
            /\ locals' = locals
       ELSE /\ pc' = IF args.auto_discover_devices
                        /\ args.device_mapping \in {"None", "empty"}
                     THEN "discover" ELSE "glob"
            /\ outcome' = outcome
            /\ locals' = [device_mapping |-> args.device_mapping, next |-> 1]
    /\ UNCHANGED <<drives, system, drive_type, df, health, args, result>>

\* lines 734-748: auto_discover_device_mapping(local_exec), which catches
\* what the commands raise; local_exec has no timeout
Discover ==
    /\ pc = "discover"
    /\ env.scan # "hangs"
    /\ pc' = "glob"
    /\ env' = [env EXCEPT !.commands_run =
                  @ + (IF env.scan = "one_device" THEN 2 ELSE 1)]
    /\ locals' = [locals EXCEPT !.device_mapping =
                     IF env.scan = "one_device" THEN "maps_serial" ELSE "empty"]
    /\ UNCHANGED <<drives, system, outcome, drive_type, df, health, args, result>>

\* lines 754-779: the glob, the return for no file, device_mapping or {}
FindCsvFiles ==
    /\ pc = "glob"
    /\ IF args.csv_files = <<>>
       THEN /\ pc' = "done"
            /\ outcome' = "returned"
            /\ system' = EmptySystemHealth
            /\ env' = LoggerAtEmptyReturn(args, env)
            /\ locals' = locals
       ELSE /\ pc' = "files"
            /\ outcome' = outcome
            /\ system' = system
            /\ env' = env
            /\ locals' = [locals EXCEPT !.device_mapping =
                             IF @ = "None" THEN "empty" ELSE @]
    /\ UNCHANGED <<drives, drive_type, df, health, args, result>>

\* the family _extract_drive_info reads from the name
FamilyOfFile(kind) ==
    IF kind \in {"empty_nvme", "quiet_nvme"} THEN "nvme" ELSE "ata"

\* the try block of the loop raises: the name, the read or the evaluation
FileFails(kind) ==
    \/ kind \in {"bad_name", "unreadable"}
    \/ FamilyOfFile(kind) = "ata" /\ AtaRaises(FileFrame(kind))
    \/ FamilyOfFile(kind) = "nvme" /\ NvmeRaises(FileFrame(kind))

\* the DriveHealth appended for a file whose analysis does not raise
FileHealth(kind, m, scan) ==
    LET serial == FileSerial(kind)
        path == DevicePath(m, serial)
    IN  HealthOf(FamilyOfFile(kind), FileFrame(kind),
                 [serial |-> serial, device_path |-> path,
                  thresholds |-> QueriedThresholds(FamilyOfFile(kind), path, serial, scan)])

\* lines 781-819: one turn of the loop over the files; what a file raises is
\* caught and the loop goes on
AnalyzeFile ==
    /\ pc = "files"
    /\ locals.next <= Len(args.csv_files)
    /\ LET kind == args.csv_files[locals.next]
           queried == /\ kind \notin {"bad_name", "unreadable"}
                      /\ DevicePath(locals.device_mapping, FileSerial(kind))
                            # Placeholder(FileSerial(kind))
       IN  /\ queried => env.scan # "hangs"
           /\ env' = [env EXCEPT
                        !.files_read = @ + (IF kind = "bad_name" THEN 0 ELSE 1),
                        !.commands_run = @ + (IF queried THEN 1 ELSE 0)]
           /\ drives' = IF FileFails(kind) THEN drives
                        ELSE Append(drives,
                                    FileHealth(kind, locals.device_mapping, env.scan))
    /\ locals' = [locals EXCEPT !.next = @ + 1]
    /\ UNCHANGED <<pc, system, outcome, drive_type, df, health, args, result>>

\* lines 821-917: after the loop
Aggregate ==
    /\ pc = "files"
    /\ locals.next > Len(args.csv_files)
    /\ pc' = "done"
    /\ IF drives = <<>>
       THEN /\ outcome' = "returned"
            /\ system' = EmptySystemHealth
            /\ env' = LoggerAtEmptyReturn(args, env)
       ELSE IF SumRaises(drives) \/ Raises(drives)
       THEN /\ outcome' = "raised"
            /\ system' = system
            /\ env' = env
       ELSE /\ outcome' = "returned"
            /\ system' = SystemHealth(drives)
            /\ env' = env
    /\ UNCHANGED <<drives, drive_type, df, health, args, result, locals>>

IsoOrEmpty(last_updated) ==
    IF last_updated = None THEN Some("") ELSE Some([isoformat |-> Val(last_updated)])

\* self.last_updated.isoformat() if self.last_updated else None: a datetime
\* is always truthy
IsoOrNone(last_updated) ==
    IF last_updated = None THEN None ELSE Some([isoformat |-> Val(last_updated)])

\* DriveHealth.to_dict()
DriveToDict(d) ==
    [device_path |-> d.device_path,
     drive_type |-> d.drive_type,
     serial |-> d.serial,
     temperature |->
        [current |-> d.temperature_current,
         max_24h |-> d.temperature_max_24h,
         mean_24h |-> d.temperature_mean_24h,
         warning |-> d.temperature_warning,
         critical |-> d.temperature_critical,
         operational_max |-> d.temperature_operational_max],
     errors |->
        [total |->
            [reallocated_sectors |-> d.reallocated_sectors_total,
             pending_sectors |-> d.pending_sectors_total,
             uncorrectable_sectors |-> d.uncorrectable_sectors_total,
             read_errors |-> d.read_errors_total,
             media_errors |-> d.media_errors_total],
         \* the key '24h'
         window |->
            [reallocated_sectors |-> d.reallocated_sectors_24h,
             pending_sectors |-> d.pending_sectors_24h,
             uncorrectable_sectors |-> d.uncorrectable_sectors_24h,
             read_errors |-> d.read_errors_24h,
             media_errors |-> d.media_errors_24h]],
     nvme_specific |->
        [available_spare_pct |-> d.available_spare_pct,
         percentage_used |-> d.percentage_used,
         unsafe_shutdowns |-> d.unsafe_shutdowns],
     info |->
        [power_on_hours |-> d.power_on_hours,
         power_cycles |-> d.power_cycles,
         last_updated |-> IsoOrNone(d.last_updated)]]

\* SystemHealth.to_dict()
SystemToDict(sys) ==
    [summary |->
        [total_drives |-> sys.total_drives,
         healthy_drives |-> sys.healthy_drives,
         warning_drives |-> sys.warning_drives,
         critical_drives |-> sys.critical_drives,
         total_errors_24h |-> sys.total_errors_24h,
         max_temperature |-> sys.max_temperature,
         total_reallocated_sectors |-> sys.total_reallocated_sectors,
         total_pending_sectors |-> sys.total_pending_sectors,
         total_media_errors |-> sys.total_media_errors],
     system |->
        [oldest_drive_hours |-> sys.oldest_drive_hours,
         newest_drive_hours |-> sys.newest_drive_hours,
         nvme_drives |-> sys.nvme_drives,
         ata_drives |-> sys.ata_drives,
         last_updated |-> IsoOrNone(sys.last_updated)],
     drives |-> [i \in 1..Len(sys.drives) |-> DriveToDict(sys.drives[i])]]

\* the caller serializes the SystemHealth it got
ToDict ==
    /\ pc = "done"
    /\ outcome = "returned"
    /\ result = <<>>
    /\ result' = [to_dict |-> SystemToDict(system)]
    /\ UNCHANGED <<pc, drives, system, outcome, drive_type, df, health, args, env, locals>>

NextDir ==
    EnterDirectory \/ Discover \/ FindCsvFiles \/ AnalyzeFile \/ Aggregate \/ ToDict

SpecDir == InitDir /\ [][NextDir]_vars

AggregateFields ==
    {"total_drives", "healthy_drives", "warning_drives", "critical_drives",
     "total_errors_24h", "max_temperature", "total_reallocated_sectors",
     "total_pending_sectors", "total_media_errors", "oldest_drive_hours",
     "newest_drive_hours", "nvme_drives", "ata_drives"}

\* C20: on a directory without attrlog.*.csv file analyze_smart_directory
\* returns a SystemHealth with no drives and every count and aggregate 0; on a
\* path that is no directory it raises before a file is read, a command is run
\* or the logger is touched.
C20_EmptyOrNotADirectory ==
    (pc = "done" /\ args.csv_files = <<>>) =>
        IF args.is_dir
        THEN /\ outcome = "returned"
             /\ system.drives = <<>>
             /\ \A f \in AggregateFields : system[f] = 0
        ELSE /\ outcome = "raised"
             /\ env.files_read = 0
             /\ env.commands_run = 0
             /\ env.logger_calls = 0

\* an empty directory analysed quietly after auto-discovery ran its commands
C20_Witness ==
    /\ pc = "done"
    /\ args.is_dir /\ args.csv_files = <<>>
    /\ ~args.verbose
    /\ env.commands_run > 0
    /\ outcome = "returned"
    /\ system.total_drives = 0

----------------------------------------------------------------------------
(* Claims C21 - C23, C28 *)

\* the files whose name, read or evaluation fails
FailingFiles == {i \in 1..Len(args.csv_files) : FileFails(args.csv_files[i])}

\* C21: whatever the files are, analyze_smart_directory returns a SystemHealth
\* and lets no exception escape when the analysis of single devices fails
\* (unreadable file, unparseable name, values that make the evaluation or the
\* classification of the device fail, like a counter missing from the latest
\* record): the device is skipped and the result holds the DriveHealth of
\* every other device.
C21_NoExceptionEscapes ==
    (pc = "done" /\ args.is_dir) =>
        /\ outcome = "returned"
        /\ Len(system.drives) = Len(args.csv_files) - Cardinality(FailingFiles)


\* the mapping in force in the file loop: the one given, or the discovered one
MappingInForce ==
    IF args.auto_discover_devices /\ args.device_mapping \in {"None", "empty"}
    THEN (IF env.scan = "one_device" THEN "maps_serial" ELSE "empty")
    ELSE args.device_mapping

IsMapped(serial) == MappingInForce = "maps_serial" /\ serial = "1RJE48WM"

UnknownPath(serial) ==
    CASE serial = "1RJE48WM" -> "/dev/unknown_1RJE48WM"
      [] serial = "S4EWNX0M123456" -> "/dev/unknown_S4EWNX0M"
      [] serial = "WD40" -> "/dev/unknown_WD40"

\* commands of auto-discovery: the scan, and the serial query of the device
ScanCommands ==
    IF args.auto_discover_devices /\ args.device_mapping \in {"None", "empty"}
    THEN (IF env.scan = "one_device" THEN 2 ELSE 1)
    ELSE 0

\* files that are read and whose serial the mapping knows
MappedFiles ==
    {i \in 1..Len(args.csv_files) :
        /\ args.csv_files[i] \notin {"bad_name", "unreadable"}
        /\ IsMapped(FileSerial(args.csv_files[i]))}

FamilyDefaultsOf(d) ==
    IF d.drive_type = "ata"
    THEN d.temperature_warning = None /\ d.temperature_critical = Some(70)
         /\ d.temperature_operational_max = Some(60)
    ELSE d.temperature_warning = Some(85) /\ d.temperature_critical = Some(95)
         /\ d.temperature_operational_max = Some(85)

RunningDevices == {i \in 1..Len(system.drives) : system.drives[i].power_on_hours # Some(0)}

\* C28: in every SystemHealth that analyze_smart_directory returns each device
\* of drives is counted in exactly one tier: healthy_drives + warning_drives +
\* critical_drives = total_drives = len(drives), ata_drives + nvme_drives =
\* total_drives, and newest_drive_hours <= oldest_drive_hours, both being 0
\* exactly when no device has power_on_hours > 0.
C28_CountsPartitionDrives ==
    (pc = "done" /\ outcome = "returned") =>
        /\ system.healthy_drives + system.warning_drives + system.critical_drives
              = system.total_drives
        /\ system.total_drives = Len(system.drives)
        /\ system.ata_drives + system.nvme_drives = system.total_drives
        /\ system.newest_drive_hours <= system.oldest_drive_hours
        /\ (RunningDevices = {}) <=> (system.oldest_drive_hours = 0)
        /\ (RunningDevices = {}) <=> (system.newest_drive_hours = 0)
        /\ \A i \in RunningDevices :
              /\ system.newest_drive_hours <= Val(system.drives[i].power_on_hours)
              /\ Val(system.drives[i].power_on_hours) <= system.oldest_drive_hours

\* a critical ATA drive with 8 hours beside a drive that reports no hours
C28_Witness ==
    /\ pc = "done" /\ outcome = "returned"
    /\ system.total_drives = 2
    /\ system.critical_drives = 1 /\ system.healthy_drives = 1
    /\ system.oldest_drive_hours = 8 /\ system.newest_drive_hours = 8
    /\ \E i \in 1..2 : system.drives[i].power_on_hours = Some(0)

----------------------------------------------------------------------------
(* Two runs of analyze_smart_directory over the same directory             *)
(*                                                                         *)
(* smart_dir.glob yields the files in the order the file system            *)
(* enumerates them; the list is not sorted.  Each run meets a listing of   *)
(* the same set of files.                                                  *)

\* the listings of a set of files
Listings(files) ==
    {l \in [1..Cardinality(files) -> files] :
        \A i \in 1..Cardinality(files), j \in 1..Cardinality(files) :
            i # j => l[i] # l[j]}

\* the drives list after the loop over the files, in the order of the listing
RECURSIVE AnalysedDrives(_, _, _)
AnalysedDrives(listing, m, scan) ==
    IF listing = <<>> THEN <<>>
    ELSE (IF FileFails(Head(listing)) THEN <<>>
          ELSE <<FileHealth(Head(listing), m, scan)>>)
         \o AnalysedDrives(Tail(listing), m, scan)

\* analyze_smart_directory(smart_dir, device_mapping) on a directory, then
\* to_dict() of what it returned
AnalyzeListing(listing, m, scan) ==
    LET ds == AnalysedDrives(listing, IF m = "None" THEN "empty" ELSE m, scan)
    IN  IF ds = <<>>
        THEN [outcome |-> "returned", system |-> EmptySystemHealth,
              to_dict |-> SystemToDict(EmptySystemHealth)]
        ELSE IF SumRaises(ds) \/ Raises(ds)
        THEN [outcome |-> "raised", system |-> NoSystem, to_dict |-> <<>>]
        ELSE [outcome |-> "returned", system |-> SystemHealth(ds),
              to_dict |-> SystemToDict(SystemHealth(ds))]

InitOrder ==
    /\ pc = "start"
    /\ drives = <<>>
    /\ system = NoSystem
    /\ outcome = "none"
    /\ drive_type = "none"
    /\ df = <<>>
    /\ health = NoHealth
    /\ args \in [device_mapping : Mappings,
                 files : {F \in SUBSET FileKinds : Cardinality(F) <= MaxFiles}]
    /\ env \in {e \in [first : Listings(args.files), second : Listings(args.files),
                       scan : {"raises", "one_device"}] : TRUE}
    /\ result = <<>>
    /\ locals = <<>>

FirstRun ==
    /\ "first" \notin DOMAIN result
    /\ result' = [r \in DOMAIN result \cup {"first"} |->
                     IF r = "first"
                     THEN AnalyzeListing(env.first, args.device_mapping, env.scan)
                     ELSE result[r]]
    /\ pc' = IF "second" \in DOMAIN result THEN "done" ELSE pc
    /\ UNCHANGED <<drives, system, outcome, drive_type, df, health, args, env, locals>>

SecondRun ==
    /\ "second" \notin DOMAIN result
    /\ result' = [r \in DOMAIN result \cup {"second"} |->
                     IF r = "second"
                     THEN AnalyzeListing(env.second, args.device_mapping, env.scan)
                     ELSE result[r]]
    /\ pc' = IF "first" \in DOMAIN result THEN "done" ELSE pc
    /\ UNCHANGED <<drives, system, outcome, drive_type, df, health, args, env, locals>>

NextOrder == FirstRun \/ SecondRun

SpecOrder == InitOrder /\ [][NextOrder]_vars

\* C23: the order of SystemHealth.drives is a function of the set of files:
\* two runs over the same files give the same device order whatever the order
\* in which the file system enumerates them, and to_dict()['drives'] lists the
\* devices in the order of SystemHealth.drives, one entry per device.
C23_OrderDeterministic ==
    (/\ pc = "done"
     /\ result.first.outcome = "returned"
     /\ result.second.outcome = "returned") =>
        /\ result.first.system.drives = result.second.system.drives
        /\ \A r \in {"first", "second"} :
              /\ Len(result[r].to_dict.drives) = Len(result[r].system.drives)
              /\ \A i \in 1..Len(result[r].system.drives) :
                    result[r].to_dict.drives[i].serial = result[r].system.drives[i].serial

----------------------------------------------------------------------------
(* to_dict() and the JSON round trip                                       *)
(*                                                                         *)
(* json.dumps writes None as null, a number as a number and a str as a     *)
(* string; json.loads reads them back.  A JSON value is a record with the  *)
(* one field null, number or string.                                       *)

\* json.dumps of an Optional number
DumpsOptional(x) == IF x = None THEN [null |-> TRUE] ELSE [number |-> Val(x)]

\* json.dumps of an int
DumpsNumber(n) == [number |-> n]

\* json.dumps of a str
DumpsString(str) == [string |-> str]

\* json.dumps of an Optional str
DumpsOptionalString(x) == IF x = None THEN [null |-> TRUE] ELSE [string |-> Val(x)]

\* json.loads of a JSON value: null gives None
Loads(j) ==
    IF "null" \in DOMAIN j THEN None
    ELSE IF "number" \in DOMAIN j THEN Some(j.number)
    ELSE Some(j.string)

DumpsDrive(dd) ==
    [device_path |-> DumpsString(dd.device_path),
     drive_type |-> DumpsString(dd.drive_type),
     serial |-> DumpsString(dd.serial),
     temperature |-> [k \in DOMAIN dd.temperature |-> DumpsOptional(dd.temperature[k])],
     errors |->
        [total |-> [k \in DOMAIN dd.errors.total |-> DumpsOptional(dd.errors.total[k])],
         window |-> [k \in DOMAIN dd.errors.window |-> DumpsNumber(dd.errors.window[k])]],
     nvme_specific |->
        [k \in DOMAIN dd.nvme_specific |-> DumpsOptional(dd.nvme_specific[k])],
     info |->
        [power_on_hours |-> DumpsOptional(dd.info.power_on_hours),
         power_cycles |-> DumpsOptional(dd.info.power_cycles),
         last_updated |-> DumpsOptionalString(dd.info.last_updated)]]

\* json.dumps(system.to_dict())
Dumps(sd) ==
    [summary |-> [k \in DOMAIN sd.summary |-> DumpsNumber(sd.summary[k])],
     system |->
        [k \in DOMAIN sd.system |->
            IF k = "last_updated" THEN DumpsOptionalString(sd.system[k])
            ELSE DumpsNumber(sd.system[k])],
     drives |-> [i \in 1..Len(sd.drives) |-> DumpsDrive(sd.drives[i])]]

LoadsGroup(g) == [k \in DOMAIN g |-> Loads(g[k])]

LoadsDrive(jd) ==
    [device_path |-> Loads(jd.device_path),
     drive_type |-> Loads(jd.drive_type),
     serial |-> Loads(jd.serial),
     temperature |-> LoadsGroup(jd.temperature),
     errors |-> [total |-> LoadsGroup(jd.errors.total),
                 window |-> LoadsGroup(jd.errors.window)],
     nvme_specific |-> LoadsGroup(jd.nvme_specific),
     info |-> LoadsGroup(jd.info)]

\* json.loads(text): every value comes back as Some(value), null as None
LoadsSystem(js) ==
    [summary |-> LoadsGroup(js.summary),
     system |-> LoadsGroup(js.system),
     drives |-> [i \in 1..Len(js.drives) |-> LoadsDrive(js.drives[i])]]

\* a SystemHealth is the one analyze_smart_directory builds from the drives,
\* or, for drives it cannot aggregate, one a caller fills in; DriveHealth
\* values to serialize: no record, records with and without a
\* missing counter, with thresholds unset or the family's, both path kinds
JsonDrives ==
    {HealthOf(FamilyOfFile(kind), FileFrame(kind),
              [serial |-> "1RJE48WM", device_path |-> path, thresholds |-> th]) :
        kind \in {"empty_ata", "empty_nvme", "errors_ata", "stale_counter_ata",
                  "quiet_nvme"},
        path \in {"/dev/sda", "/dev/unknown_1RJE48WM"},
        th \in {None, Some([k \in ThresholdKeys |-> None])}}

InitJson ==
    /\ pc = "start"
    /\ drives \in UNION {[1..n -> JsonDrives] : n \in 0..MaxFiles}
    /\ system \in {[(IF SumRaises(drives) \/ Raises(drives)
                       THEN [EmptySystemHealth EXCEPT !.drives = drives,
                                                      !.total_drives = Len(drives)]
                       ELSE SystemHealth(drives)) EXCEPT !.last_updated = lu] :
                      lu \in {None, Some(CallTime)}}
    /\ outcome = "none"
    /\ drive_type = "none"
    /\ df = <<>>
    /\ health = NoHealth
    /\ args = <<>>
    /\ env = <<>>
    /\ result = <<>>
    /\ locals = <<>>

\* system.to_dict()
SerializeSystem ==
    /\ pc = "start"
    /\ pc' = "dict"
    /\ result' = [to_dict |-> SystemToDict(system)]
    /\ UNCHANGED <<drives, system, outcome, drive_type, df, health, args, env, locals>>

\* json.loads(json.dumps(...)) of the dict
JsonRoundTrip ==
    /\ pc = "dict"
    /\ pc' = "done"
    /\ result' = [to_dict |-> result.to_dict,
                  loaded |-> LoadsSystem(Dumps(result.to_dict))]
    /\ UNCHANGED <<drives, system, outcome, drive_type, df, health, args, env, locals>>

NextJson == SerializeSystem \/ JsonRoundTrip

SpecJson == InitJson /\ [][NextJson]_vars

----------------------------------------------------------------------------
(* Claim C24 *)

SummaryFields ==
    {"total_drives", "healthy_drives", "warning_drives", "critical_drives",
     "total_errors_24h", "max_temperature", "total_reallocated_sectors",
     "total_pending_sectors", "total_media_errors"}

SystemFields == {"oldest_drive_hours", "newest_drive_hours", "nvme_drives", "ata_drives"}

\* the timestamp as json.loads returns it: null for None, else the ISO string
LoadedTimestamp(last_updated) ==
    IF last_updated = None THEN None
    ELSE Some([isoformat |-> Val(last_updated)])

DriveRoundTrip(d, ld) ==
    /\ ld.temperature.current = d.temperature_current
    /\ ld.temperature.max_24h = d.temperature_max_24h
    /\ ld.temperature.mean_24h = d.temperature_mean_24h
    /\ ld.temperature.warning = d.temperature_warning
    /\ ld.temperature.critical = d.temperature_critical
    /\ ld.temperature.operational_max = d.temperature_operational_max
    /\ ld.errors.total.reallocated_sectors = d.reallocated_sectors_total
    /\ ld.errors.total.pending_sectors = d.pending_sectors_total
    /\ ld.errors.total.uncorrectable_sectors = d.uncorrectable_sectors_total
    /\ ld.errors.total.read_errors = d.read_errors_total
    /\ ld.errors.total.media_errors = d.media_errors_total
    /\ ld.errors.window.reallocated_sectors = Some(d.reallocated_sectors_24h)
    /\ ld.errors.window.pending_sectors = Some(d.pending_sectors_24h)
    /\ ld.errors.window.uncorrectable_sectors = Some(d.uncorrectable_sectors_24h)
    /\ ld.errors.window.read_errors = Some(d.read_errors_24h)
    /\ ld.errors.window.media_errors = Some(d.media_errors_24h)
    /\ ld.nvme_specific.available_spare_pct = d.available_spare_pct
    /\ ld.nvme_specific.percentage_used = d.percentage_used
    /\ ld.nvme_specific.unsafe_shutdowns = d.unsafe_shutdowns
    /\ ld.info.power_on_hours = d.power_on_hours
    /\ ld.info.power_cycles = d.power_cycles
    /\ ld.info.last_updated = LoadedTimestamp(d.last_updated)

\* C24: the JSON round trip of to_dict() keeps every numeric field of the
\* summary, system and per-drive groups with its value, gives null (never an
\* empty string) for a last_updated that is None and the ISO-8601 string for
\* one that is set, and null for every unset temperature, threshold and spare
\* field.
C24_JsonRoundTrip ==
    (pc = "done" /\ "loaded" \in DOMAIN result) =>
        /\ \A f \in SummaryFields : result.loaded.summary[f] = Some(system[f])
        /\ \A f \in SystemFields : result.loaded.system[f] = Some(system[f])
        /\ result.loaded.system.last_updated = LoadedTimestamp(system.last_updated)
        /\ Len(result.loaded.drives) = Len(system.drives)
        /\ \A i \in 1..Len(system.drives) :
              DriveRoundTrip(system.drives[i], result.loaded.drives[i])

\* a system without timestamp, holding a drive without timestamp, without
\* temperatures and without thresholds, after the round trip
C24_Witness ==
    /\ pc = "done" /\ "loaded" \in DOMAIN result
    /\ system.last_updated = None
    /\ Len(system.drives) = 2
    /\ system.drives[1].last_updated = None
    /\ system.drives[1].temperature_current = None
    /\ system.drives[2].temperature_critical = None
    /\ system.drives[2].last_updated # None
    /\ result.loaded.drives[1].info.last_updated = None

----------------------------------------------------------------------------
(* Claim C25 *)

Shown(colour) == Cardinality({i \in 1..Len(result) : result[i] = colour})

\* C25: display.get_health_status gives each DriveHealth the tier the counting
\* loop of analyze_smart_directory gives it (green Healthy, yellow Warning,
\* red Critical): the numbers of drives shown green, yellow and red are
\* healthy_drives, warning_drives and critical_drives.
C25_DisplayRefinesClassification ==
    (Classified /\ result # <<>>) =>
        /\ Shown("green") = system.healthy_drives
        /\ Shown("yellow") = system.warning_drives
        /\ Shown("red") = system.critical_drives

\* an NVMe drive that only its low spare capacity makes a Warning, shown yellow
C25_Witness ==
    /\ Classified /\ result # <<>>
    /\ TheDrive.drive_type = "nvme"
    /\ TheDrive.available_spare_pct = Some(9)
    /\ TheDrive.temperature_current = None
    /\ \A f \in TotalFields : TheDrive[f] = Some(0)
    /\ result[1] = "yellow"
    /\ system.warning_drives = 1

----------------------------------------------------------------------------
(* Two invocations and the logger of the package                           *)
(*                                                                         *)
(* logger.disable("truenas_smart_parser") and logger.enable act on the one *)
(* logger of the process.  Two invocations run one after the other or      *)
(* interleaved (threads); each configures the logger, logs while it works, *)
(* and leaves by one of its exits.                                         *)

Invocations == {1, 2}

\* the exits of analyze_smart_directory
DirectoryExits == {"not_a_directory", "no_files", "no_drives", "drives", "raises"}

\* the exits of analyze_smart_remote
RemoteExits == {"list_fails", "no_files", "copy_fails", "no_drives", "drives", "raises"}

Calls ==
    [entry : {"analyze_smart_directory"}, verbose : BOOLEAN, exit : DirectoryExits]
    \cup [entry : {"analyze_smart_remote"}, verbose : BOOLEAN, exit : RemoteExits]

\* the logger is enabled again before the function is left: the two early
\* returns of analyze_smart_directory, the end of analyze_smart_remote
ReEnables(call) ==
    IF call.entry = "analyze_smart_directory"
    THEN call.exit \in {"no_files", "no_drives"}
    ELSE call.exit \in {"no_drives", "drives"}

\* the state of the logger when the call is left: the other exits do not
\* touch it, but analyze_smart_remote has it disabled once more by the
\* analyze_smart_directory it calls before that one raises
LoggerAtExit(call, enabled) ==
    IF call.verbose THEN enabled
    ELSE IF ReEnables(call) THEN TRUE
    ELSE IF call.entry = "analyze_smart_remote" /\ call.exit = "raises" THEN FALSE
    ELSE enabled

InitCalls ==
    /\ pc = "start"
    /\ drives = <<>>
    /\ system = NoSystem
    /\ outcome = "none"
    /\ drive_type = "none"
    /\ df = <<>>
    /\ health = NoHealth
    /\ args \in [Invocations -> Calls]
    /\ env = [logger_enabled |-> TRUE, overlap |-> FALSE]
    /\ result = <<>>
    /\ locals = [i \in Invocations |-> [pc |-> "idle", emitted |-> "none"]]

InProgress(i) == locals[i].pc \in {"running", "logged"}

\* the call begins: the directory check, then logger.disable unless verbose
Enter(i) ==
    /\ locals[i].pc = "idle"
    /\ IF args[i].exit = "not_a_directory"
       THEN /\ locals' = [locals EXCEPT ![i].pc = "done"]
            /\ env' = env
       ELSE /\ locals' = [locals EXCEPT ![i].pc = "running"]
            /\ env' = [logger_enabled |-> IF args[i].verbose THEN env.logger_enabled
                                          ELSE FALSE,
                       overlap |-> env.overlap \/ \E j \in Invocations \ {i} : InProgress(j)]
    /\ UNCHANGED <<pc, drives, system, outcome, drive_type, df, health, args, result>>

\* logger.info / logger.warning of the call: shown when the logger is enabled
Log(i) ==
    /\ locals[i].pc = "running"
    /\ locals' = [locals EXCEPT ![i].pc = "logged",
                                ![i].emitted = IF env.logger_enabled THEN "yes" ELSE "no"]
    /\ UNCHANGED <<pc, drives, system, outcome, drive_type, df, health, args, env, result>>

\* the call returns or raises
Leave(i) ==
    /\ locals[i].pc = "logged"
    /\ locals' = [locals EXCEPT ![i].pc = "done"]
    /\ env' = [env EXCEPT !.logger_enabled = LoggerAtExit(args[i], env.logger_enabled)]
    /\ UNCHANGED <<pc, drives, system, outcome, drive_type, df, health, args, result>>

NextCalls == \E i \in Invocations : Enter(i) \/ Log(i) \/ Leave(i)

SpecCalls == InitCalls /\ [][NextCalls]_vars

\* what a call that logs shows when it runs alone in a fresh process
EmittedAlone(call) == IF call.verbose THEN "yes" ELSE "no"

\* C26: analyses share no mutable state: interleaved with another invocation
\* each behaves as when run alone (also in whether its log messages are
\* emitted), and an analysis changes no process-wide state.
C26_NoSharedState ==
    /\ \A i \in Invocations :
          locals[i].pc \in {"logged", "done"} /\ locals[i].emitted # "none"
              => locals[i].emitted = EmittedAlone(args[i])
    /\ (\A i \in Invocations : locals[i].pc = "done") => env.logger_enabled

\* C29: the mute of the logger is scoped to one call: in any sequence of calls,
\* once a call with verbose=False has returned or raised, by whatever exit,
\* logging of the package is enabled again, and a later call with
\* verbose=True emits its messages.
C29_MuteScopedToCall ==
    ~env.overlap =>
        /\ \A i \in Invocations :
              (/\ locals[i].pc = "done"
               /\ ~args[i].verbose
               /\ \A j \in Invocations \ {i} : ~InProgress(j))
                  => env.logger_enabled
        /\ \A i \in Invocations :
              (args[i].verbose /\ locals[i].emitted # "none")
                  => locals[i].emitted = "yes"

----------------------------------------------------------------------------
(* _extract_drive_info                                                     *)
(*                                                                         *)
(* A file name is a sequence of pieces: a prefix, the characters of the    *)
(* stem, and a suffix.  The prefixes and suffixes are pieces that the      *)
(* characters of the stem cannot spell, so startswith, endswith and        *)
(* replace act on whole pieces.                                            *)

MaxStem == 5

Prefixes == {"attrlog.", "smart."}

Suffixes == {".ata.csv", ".nvme.csv", ".csv"}

\* a hyphen, the letter n, a digit and another letter
StemChars == {"-", "n", "1", "S"}

Stems == UNION {[1..k -> StemChars] : k \in 0..MaxStem}

FileNames == {<<p>> \o stem \o <<x>> : p \in Prefixes, stem \in Stems, x \in Suffixes}

\* str.replace(piece, '')
Remove(name, piece) == SelectSeq(name, LAMBDA t : t # piece)

\* the places where '-n' occurs in name
DashN(name) == {i \in 1..(Len(name) - 1) : name[i] = "-" /\ name[i + 1] = "n"}

\* the places where '-' occurs in name
Dashes(name) == {i \in 1..Len(name) : name[i] = "-"}

Last(places) == CHOOSE i \in places : \A j \in places : j <= i

\* name.rsplit('-n', 1)[0] when '-n' in name
BeforeLastDashN(name) == SubSeq(name, 1, Last(DashN(name)) - 1)

\* name.rsplit('-', 1)
RsplitDash(name) ==
    IF Dashes(name) = {} THEN <<name>>
    ELSE <<SubSeq(name, 1, Last(Dashes(name)) - 1),
           SubSeq(name, Last(Dashes(name)) + 1, Len(name))>>

ValueError == [raises |-> "ValueError"]

\* _extract_drive_info(filename)
ExtractDriveInfo(filename) ==
    IF Head(filename) # "attrlog." THEN ValueError
    ELSE LET name == Remove(filename, "attrlog.")
             last == name[Len(name)]
         IN  IF last \notin {".ata.csv", ".nvme.csv"} THEN ValueError
             ELSE LET type == IF last = ".ata.csv" THEN "ata" ELSE "nvme"
                      stem == Remove(name, last)
                      cut == IF type = "nvme" /\ DashN(stem) # {}
                             THEN BeforeLastDashN(stem) ELSE stem
                      parts == RsplitDash(cut)
                  IN  IF Len(parts) = 2
                      THEN [serial |-> parts[2], model |-> parts[1], drive_type |-> type]
                      ELSE [serial |-> cut, model |-> cut, drive_type |-> type]

InitName ==
    /\ pc = "start"
    /\ drives = <<>>
    /\ system = NoSystem
    /\ outcome = "none"
    /\ drive_type = "none"
    /\ df = <<>>
    /\ health = NoHealth
    /\ args \in [filename : FileNames]
    /\ env = <<>>
    /\ result = <<>>
    /\ locals = <<>>

extract_drive_info ==
    /\ pc = "start"
    /\ pc' = "done"
    /\ result' = ExtractDriveInfo(args.filename)
    /\ outcome' = IF ExtractDriveInfo(args.filename) = ValueError
                  THEN "raised" ELSE "returned"
    /\ UNCHANGED <<drives, system, drive_type, df, health, args, env, locals>>

NextName == extract_drive_info

SpecName == InitName /\ [][NextName]_vars

----------------------------------------------------------------------------
(* Claim C30 *)

\* the stem of a file name: what stands between prefix and suffix
StemOf(filename) == SubSeq(filename, 2, Len(filename) - 1)

\* MODEL-SERIAL: a last hyphen with a model before it and a serial after it
IsModelSerial(body) ==
    Dashes(body) # {} /\ 1 < Last(Dashes(body)) /\ Last(Dashes(body)) < Len(body)

\* the stems that body is with a namespace suffix -nX (X digits) removed
WithoutNamespace(body) ==
    {SubSeq(body, 1, k - 1) : k \in {i \in DashN(body) :
        /\ i + 2 <= Len(body)
        /\ \A j \in (i + 2)..Len(body) : body[j] = "1"}}

\* the readings of a file name as one of the three forms
Readings(filename) ==
    IF Head(filename) # "attrlog."
       \/ filename[Len(filename)] \notin {".ata.csv", ".nvme.csv"}
    THEN {}
    ELSE LET type == IF filename[Len(filename)] = ".ata.csv" THEN "ata" ELSE "nvme"
             bodies == {b \in {StemOf(filename)} : IsModelSerial(b)}
                       \cup (IF type = "nvme"
                             THEN {b \in WithoutNamespace(StemOf(filename)) :
                                      IsModelSerial(b)}
                             ELSE {})
         IN  {[serial |-> SubSeq(b, Last(Dashes(b)) + 1, Len(b)),
               model |-> SubSeq(b, 1, Last(Dashes(b)) - 1),
               drive_type |-> type] : b \in bodies}

\* C30: _extract_drive_info maps every file name attrlog.MODEL-SERIAL.ata.csv,
\* attrlog.MODEL-SERIAL.nvme.csv or attrlog.MODEL-SERIAL-nX.nvme.csv to
\* (SERIAL, MODEL, family), SERIAL being the hyphen-free segment after the last
\* hyphen of MODEL-SERIAL; only an actual trailing namespace suffix -nX is
\* removed, so that an NVMe name without the suffix whose serial or model
\* contains '-n' still yields SERIAL; any other file name raises ValueError.
C30_SerialOfEveryName ==
    pc = "done" =>
        IF Readings(args.filename) = {}
        THEN result = ValueError
        ELSE result \in Readings(args.filename)

----------------------------------------------------------------------------
(* cli.analyze                                                             *)
(*                                                                         *)
(* args: the options of the command, whether smart_dir is a directory and  *)
(* the files in it.  A call binds its keyword arguments to the parameters  *)
(* of the function before the body runs; a keyword that is no parameter    *)
(* raises TypeError.                                                       *)

MaxCliFiles == 1

\* --device-map: not given, a path that does not exist, a JSON object that
\* maps the serial, a file that is no JSON
DeviceMaps == {"none", "missing", "valid", "invalid_json"}

\* the parameters of parser.analyze_smart_directory
DirectoryParameters == {"smart_dir", "device_mapping", "auto_discover_devices", "verbose"}

\* the keywords of the call in cli.analyze
AnalyzeKeywords == {"device_mapping", "ssh_command"}

\* the call raises TypeError unless every keyword is a parameter
Binds(keywords) == keywords \subseteq DirectoryParameters

\* the drives of the file loop, for files analysed with mapping m
RECURSIVE DrivesOf(_, _, _)
DrivesOf(files, m, scan) ==
    IF files = <<>> THEN <<>>
    ELSE IF FileFails(Head(files)) THEN DrivesOf(Tail(files), m, scan)
    ELSE <<FileHealth(Head(files), m, scan)>> \o DrivesOf(Tail(files), m, scan)

Raised == [raises |-> "Exception"]

\* analyze_smart_directory(smart_dir, device_mapping=m): the SystemHealth, or
\* what it raises
DirectoryResult(is_dir, files, m, scan) ==
    IF ~is_dir THEN Raised
    ELSE LET ds == DrivesOf(files, m, scan)
         IN  IF ds = <<>> THEN EmptySystemHealth
             ELSE IF SumRaises(ds) \/ Raises(ds) THEN Raised
             ELSE SystemHealth(ds)

\* create_drives_table_compact: sum(error_counts) over the four totals of a
\* drive without new errors
DisplayRaises(sys, compact) ==
    /\ compact
    /\ \E i \in 1..Len(sys.drives) :
          LET d == sys.drives[i]
          IN  /\ d.reallocated_sectors_24h = 0 /\ d.pending_sectors_24h = 0
              /\ d.media_errors_24h = 0 /\ d.uncorrectable_sectors_24h = 0
              /\ \E f \in {"reallocated_sectors_total", "pending_sectors_total",
                           "media_errors_total", "uncorrectable_sectors_total"} :
                    d[f] = None

\* device_mapping after `if device_map and device_map.exists()`
LoadedMapping(device_map) == IF device_map = "valid" THEN "maps_serial" ELSE "empty"

InitCli ==
    /\ pc = "configure"
    /\ drives = <<>>
    /\ system = NoSystem
    /\ outcome = "none"
    /\ drive_type = "none"
    /\ df = <<>>
    /\ health = NoHealth
    /\ args \in {a \in [is_dir : BOOLEAN, device_map : DeviceMaps,
                       ssh_host : BOOLEAN, json_output : BOOLEAN,
                       compact : BOOLEAN, verbose : BOOLEAN,
                       csv_files : UNION {[1..n -> FileKinds] : n \in 0..MaxCliFiles}] :
                    ~a.is_dir => a.csv_files = <<>>}
    /\ env \in [sinks : {"default"}, scan : {"raises", "one_device"}]
    /\ result = [printed |-> "nothing", exit_status |-> "running"]
    /\ locals = [device_mapping |-> "empty"]

\* lines 86-88: logger.remove() and a sink that drops every message
ConfigureLogging ==
    /\ pc = "configure"
    /\ pc' = "load"
    /\ env' = [env EXCEPT !.sinks = IF args.verbose THEN @ ELSE "null"]
    /\ UNCHANGED <<drives, system, outcome, drive_type, df, health, args, result, locals>>

\* lines 91-101: json.load of the device map, the executor for --ssh-host
LoadDeviceMap ==
    /\ pc = "load"
    /\ IF args.device_map = "invalid_json"
       THEN pc' = "except" /\ outcome' = "raised" /\ locals' = locals
       ELSE /\ pc' = "call"
            /\ outcome' = outcome
            /\ locals' = [locals EXCEPT !.device_mapping = LoadedMapping(args.device_map)]
    /\ UNCHANGED <<drives, system, drive_type, df, health, args, env, result>>

\* lines 104-118: the call of analyze_smart_directory and the output
AnalyzeAndPrint ==
    /\ pc = "call"
    /\ LET r == IF Binds(AnalyzeKeywords)
                THEN DirectoryResult(args.is_dir, args.csv_files,
                                     locals.device_mapping, env.scan)
                ELSE Raised
       IN  IF r = Raised
           THEN pc' = "except" /\ outcome' = "raised"
                /\ system' = system /\ result' = result
           ELSE IF ~args.json_output /\ DisplayRaises(r, args.compact)
           THEN pc' = "except" /\ outcome' = "raised"
                /\ system' = r /\ result' = result
           ELSE /\ pc' = "exit"
                /\ outcome' = "returned"
                /\ system' = r
                /\ result' = [result EXCEPT !.printed =
                                 IF args.json_output THEN "json" ELSE "tables"]
    /\ UNCHANGED <<drives, drive_type, df, health, args, env, locals>>

\* lines 120-122 and the end of the command: typer.Exit(1) for an exception,
\* status 0 otherwise
ExitCli ==
    /\ pc \in {"except", "exit"}
    /\ pc' = "exited"
    /\ result' = [result EXCEPT !.exit_status = IF pc = "except" THEN 1 ELSE 0]
    /\ UNCHANGED <<drives, system, outcome, drive_type, df, health, args, env, locals>>

NextCli == ConfigureLogging \/ LoadDeviceMap \/ AnalyzeAndPrint \/ ExitCli

SpecCli == InitCli /\ [][NextCli]_vars

----------------------------------------------------------------------------
(* Claim C27 *)

\* what analyze_smart_directory gives for the directory and the mapping of
\* the command line
AnalysisOfArgs ==
    DirectoryResult(args.is_dir, args.csv_files, LoadedMapping(args.device_map), env.scan)

\* C27: the command `analyze`, given an existing directory (with or without
\* --device-map / --ssh-host), runs analyze_smart_directory on it and prints
\* the serialized summary (with --json) or the tables and exits without error;
\* it exits with status 1 only when the analysis itself fails.
C27_AnalyzePrintsAndExits ==
    pc = "exited" =>
        /\ (args.is_dir /\ args.device_map # "invalid_json" /\ AnalysisOfArgs # Raised)
              => /\ result.exit_status = 0
                 /\ result.printed = IF args.json_output THEN "json" ELSE "tables"
        /\ (result.exit_status = 1 /\ args.device_map # "invalid_json")
              => AnalysisOfArgs = Raised

====
